---- MODULE Spec2Model ----
(***************************************************************************)
(* A model of the null graphics device (src/src/null/null_device.cpp):     *)
(* buffer store, vertex declarations, stream binding, the gather of        *)
(* DrawElements, the frame buffer, the render targets and their textures,  *)
(* the program store and the constant registers.                           *)
(*                                                                         *)
(* A failing assert() ends the program: `fatal' records it and no action   *)
(* is enabled afterwards.  Pointers are modelled by what they refer to; a  *)
(* nullable pointer is an option, <<>> for null and <<x>> for a pointer to *)
(* x.                                                                      *)
(***************************************************************************)
EXTENDS Integers, Sequences, FiniteSets, TLC

(***************************************************************************)
(* Bounds of the model.                                                    *)
(***************************************************************************)
\* the most bytes of a buffer of the buffer store
MaxBufSize == 2
\* the stream slots of the device and of a vertex declaration
MAX_VERTEX_STREAM_COUNT == 2
\* the vertices of a vertex array and the most indices of a draw call
MaxCount == 3
\* the most pixels a side of a display or a render target
MaxDim == 2
\* the registers of a constant register bank
MaxRegisters == 2

VBHandles == {"vb1", "vb2"}
IBHandles == {"ib1"}
VDHandles == {"vd1"}
RTHandles == {"rt1"}
\* the handles the render target switching specification works on
TargetHandles == {"rt1", "rt2"}
VPHandles == {"vp1"}
FPHandles == {"fp1"}
ProgramHandles == VPHandles \cup FPHandles
\* the handles the buffer store specification works on
StoreVB == {"vb1"}
StoreIB == {"ib1"}
Byte == {0, 255}

\* a vertex array of MaxCount vertices of VertexStride bytes each: vertex v
\* (from 1) holds the bytes 10v, 10v+1, ...
VertexStride == 3
VertexArray == [i \in 1..(MaxCount * VertexStride) |->
                   (10 * ((i - 1) \div VertexStride + 1)) + ((i - 1) % VertexStride)]
\* the vertex array the client keeps in its own memory
ClientVertices == VertexArray

VARIABLES
    vbufs,      \* vertex buffer handle -> VertexBuffer object
    ibufs,      \* index buffer handle -> IndexBuffer object
    decls,      \* vertex declaration handle -> VertexDeclaration object
    m_VertexStreams, \* gdevice.m_VertexStreams
    charSigned, \* whether plain char is a signed type in this build
    dangling,   \* the stream slots whose source points into freed storage
    m_Opened,   \* gdevice.m_Opened
    m_DisplayWidth,  \* gdevice.m_DisplayWidth
    m_DisplayHeight, \* gdevice.m_DisplayHeight
    m_FrameBuffer,  \* gdevice.m_FrameBuffer: the four planes of the default target
    m_RenderBuffer, \* gdevice.m_RenderBuffer: pointer to the active plane set
    rts,        \* render target handle -> RenderTarget object
    staleTarget, \* whether gdevice.m_RenderBuffer points to the planes of a deleted target
    fatal,      \* "none", or the failure that ended the program
    lastOp,     \* history: the call (or client write) of the last step and its handle
    args,       \* history: the arguments of the last step, where a specification keeps them
    lost,       \* history: buffers with a map snapshot that no pointer refers to any more
    touched,    \* history: mapped buffers whose data was replaced since the map
    programs,   \* program handle -> the byte blob of a vertex or fragment program
    m_VertexProgram,   \* gdevice.m_VertexProgram
    m_FragmentProgram, \* gdevice.m_FragmentProgram
    m_VertexProgramRegisters,   \* gdevice.m_VertexProgramRegisters
    m_FragmentProgramRegisters, \* gdevice.m_FragmentProgramRegisters
    mapped,     \* history: buffers with a map call and no unmap call since
    orphans     \* history: compaction buffers that are allocated with no pointer left to them

bufVars == <<vbufs, ibufs>>
histVars == <<lost, touched, mapped>>
programVars == <<programs, m_VertexProgram, m_FragmentProgram, m_VertexProgramRegisters,
                 m_FragmentProgramRegisters>>
streamVarsOfProgram == <<decls, m_VertexStreams>>
streamVars == <<decls, m_VertexStreams, dangling>>
deviceVars == <<m_Opened, m_DisplayWidth, m_DisplayHeight, m_FrameBuffer, m_RenderBuffer, rts>>
frameVars == <<m_Opened, m_DisplayWidth, m_DisplayHeight, m_FrameBuffer, m_RenderBuffer,
               rts, staleTarget>>
vars == <<vbufs, ibufs, decls, m_VertexStreams, charSigned, dangling, m_Opened,
          m_DisplayWidth, m_DisplayHeight, m_FrameBuffer, m_RenderBuffer, rts, staleTarget,
          fatal, lastOp, args, lost, touched, programs, m_VertexProgram, m_FragmentProgram,
          m_VertexProgramRegisters, m_FragmentProgramRegisters, mapped, orphans>>

None == <<>>
Some(x) == <<x>>
IsNull(p) == p = None
Deref(p) == p[1]

Min(a, b) == IF a < b THEN a ELSE b
Max(a, b) == IF a > b THEN a ELSE b

ByteSeqs(n) == [1..n -> Byte]

Op(name, h) == [op |-> name, h |-> h]

Running == fatal = "none"

(***************************************************************************)
(* memcpy(&dst[dstOff], &src[srcOff], n) on byte sequences, offsets from 0 *)
(***************************************************************************)
MemCpy(dst, dstOff, src, srcOff, n) ==
    [i \in 1..Len(dst) |->
        IF i > dstOff /\ i <= dstOff + n THEN src[srcOff + (i - dstOff)] ELSE dst[i]]

(***************************************************************************)
(* Buffer store                                                            *)
(***************************************************************************)
NoBuffer == [alive |-> FALSE, m_Buffer |-> <<>>, m_Copy |-> None, m_Size |-> 0]

\* new VertexBuffer / IndexBuffer with new char[size]; data is null or `size' bytes
NewBufferObject(size, contents) ==
    [alive |-> TRUE, m_Buffer |-> contents, m_Copy |-> None, m_Size |-> size]

\* new char[n]: a block of n bytes of indeterminate value
NewChars(n) == ByteSeqs(n)

\* new char[n] where the caller overwrites the bytes before anything reads them:
\* one representative of the indeterminate values
Fresh(n) == [i \in 1..n |-> 0]

\* NewVertexBuffer: the storage is copied from data only if size > 0 and data is
\* not null; otherwise it keeps the indeterminate bytes of new char[size]
VertexBufferCreated(size, data, raw) ==
    NewBufferObject(size,
        IF size > 0 /\ ~IsNull(data) THEN MemCpy(raw, 0, Deref(data), 0, size) ELSE raw)

NewVertexBuffer(h, size, data) ==
    /\ Running
    /\ ~vbufs[h].alive
    /\ \E raw \in (IF size > 0 /\ ~IsNull(data) THEN {Fresh(size)} ELSE NewChars(size)) :
          vbufs' = [vbufs EXCEPT ![h] = VertexBufferCreated(size, data, raw)]
    /\ lastOp' = Op("NewVertexBuffer", h)
    /\ UNCHANGED <<ibufs, fatal>>

\* DeleteVertexBuffer: assert(vb->m_Copy == 0x0), then the storage and the object go
DeleteVertexBuffer(h) ==
    /\ Running
    /\ vbufs[h].alive
    /\ IF ~IsNull(vbufs[h].m_Copy)
       THEN /\ fatal' = "assert"
            /\ UNCHANGED vbufs
       ELSE /\ vbufs' = [vbufs EXCEPT ![h] = NoBuffer]
            /\ UNCHANGED fatal
    /\ lastOp' = Op("DeleteVertexBuffer", h)
    /\ UNCHANGED <<ibufs>>

\* SetVertexBufferData: memcpy(vb->m_Buffer, data, size); m_Size is not touched
VertexBufferDataSet(vb, size, data) ==
    [vb EXCEPT !.m_Buffer = MemCpy(vb.m_Buffer, 0, data, 0, size)]

SetVertexBufferData(h, size, data) ==
    /\ Running
    /\ vbufs[h].alive
    /\ size <= vbufs[h].m_Size
    /\ vbufs' = [vbufs EXCEPT ![h] = VertexBufferDataSet(vbufs[h], size, data)]
    /\ lastOp' = Op("SetVertexBufferData", h)
    /\ UNCHANGED <<ibufs, fatal>>

\* SetVertexBufferSubData: memcpy(&(vb->m_Buffer)[offset], data, size)
VertexBufferSubDataSet(vb, offset, size, data) ==
    [vb EXCEPT !.m_Buffer = MemCpy(vb.m_Buffer, offset, data, 0, size)]

SetVertexBufferSubData(h, offset, size, data) ==
    /\ Running
    /\ vbufs[h].alive
    /\ offset + size <= vbufs[h].m_Size
    /\ vbufs' = [vbufs EXCEPT ![h] = VertexBufferSubDataSet(vbufs[h], offset, size, data)]
    /\ lastOp' = Op("SetVertexBufferSubData", h)
    /\ UNCHANGED <<ibufs, fatal>>

\* MapVertexBuffer: vb->m_Copy = new char[m_Size]; memcpy(m_Copy, m_Buffer, m_Size).
\* Nothing looks at the old m_Copy: the pointer to a snapshot still outstanding
\* is overwritten, and that block is never freed.
VertexBufferMapped(vb, raw) ==
    [vb EXCEPT !.m_Copy = Some(MemCpy(raw, 0, vb.m_Buffer, 0, vb.m_Size))]

\* (mutant) one map takes a snapshot of every vertex buffer
MapVertexBuffer_All(h) ==
    /\ Running
    /\ vbufs[h].alive
    /\ vbufs' = [g \in DOMAIN vbufs |->
                    IF vbufs[g].alive THEN VertexBufferMapped(vbufs[g], Fresh(vbufs[g].m_Size))
                    ELSE vbufs[g]]
    /\ lastOp' = Op("MapVertexBuffer", h)
    /\ UNCHANGED <<ibufs, fatal>>

MapVertexBuffer(h) ==
    /\ Running
    /\ vbufs[h].alive
    /\ vbufs' = [vbufs EXCEPT ![h] = VertexBufferMapped(vbufs[h], Fresh(vbufs[h].m_Size))]
    /\ lastOp' = Op("MapVertexBuffer", h)
    /\ UNCHANGED <<ibufs, fatal>>

\* The client writes one byte through the pointer MapVertexBuffer returned
WriteVertexBufferView(h, i, b) ==
    /\ Running
    /\ vbufs[h].alive
    /\ ~IsNull(vbufs[h].m_Copy)
    /\ i \in 1..vbufs[h].m_Size
    /\ vbufs' = [vbufs EXCEPT ![h].m_Copy = Some([Deref(@) EXCEPT ![i] = b])]
    /\ lastOp' = Op("WriteVertexBufferView", h)
    /\ UNCHANGED <<ibufs, fatal>>

\* (mutant) the write-back stops one byte short
VertexBufferUnmapped_Short(vb) ==
    [vb EXCEPT !.m_Buffer = MemCpy(vb.m_Buffer, 0, Deref(vb.m_Copy), 0, Max(vb.m_Size - 1, 0)),
               !.m_Copy = None]

\* UnmapVertexBuffer: memcpy(m_Buffer, m_Copy, m_Size); delete [] m_Copy; m_Copy = 0
VertexBufferUnmapped(vb) ==
    [vb EXCEPT !.m_Buffer = MemCpy(vb.m_Buffer, 0, Deref(vb.m_Copy), 0, vb.m_Size),
               !.m_Copy = None]

\* The caller unmaps what it has mapped: with m_Copy null the memcpy would read
\* from a null pointer.
UnmapVertexBuffer(h) ==
    /\ Running
    /\ vbufs[h].alive
    /\ ~IsNull(vbufs[h].m_Copy)
    /\ vbufs' = [vbufs EXCEPT ![h] = VertexBufferUnmapped(vbufs[h])]
    /\ UNCHANGED fatal
    /\ lastOp' = Op("UnmapVertexBuffer", h)
    /\ UNCHANGED <<ibufs>>

\* NewIndexBuffer: memcpy(ib->m_Buffer, data, size) whatever data is, so the
\* caller passes `size' bytes
IndexBufferCreated(size, data, raw) ==
    NewBufferObject(size, MemCpy(raw, 0, data, 0, size))

NewIndexBuffer(h, size, data) ==
    /\ Running
    /\ ~ibufs[h].alive
    /\ ibufs' = [ibufs EXCEPT ![h] = IndexBufferCreated(size, data, Fresh(size))]
    /\ UNCHANGED fatal
    /\ lastOp' = Op("NewIndexBuffer", h)
    /\ UNCHANGED <<vbufs>>

\* DeleteIndexBuffer: assert(ib->m_Copy == 0x0)
DeleteIndexBuffer(h) ==
    /\ Running
    /\ ibufs[h].alive
    /\ IF ~IsNull(ibufs[h].m_Copy)
       THEN /\ fatal' = "assert"
            /\ UNCHANGED ibufs
       ELSE /\ ibufs' = [ibufs EXCEPT ![h] = NoBuffer]
            /\ UNCHANGED fatal
    /\ lastOp' = Op("DeleteIndexBuffer", h)
    /\ UNCHANGED <<vbufs>>

\* SetIndexBufferData: memcpy(ib->m_Buffer, data, size)
IndexBufferDataSet(ib, size, data) ==
    [ib EXCEPT !.m_Buffer = MemCpy(ib.m_Buffer, 0, data, 0, size)]

SetIndexBufferData(h, size, data) ==
    /\ Running
    /\ ibufs[h].alive
    /\ size <= ibufs[h].m_Size
    /\ ibufs' = [ibufs EXCEPT ![h] = IndexBufferDataSet(ibufs[h], size, data)]
    /\ lastOp' = Op("SetIndexBufferData", h)
    /\ UNCHANGED <<vbufs, fatal>>

\* (mutant) the offset is dropped: the bytes land at the start of the storage
IndexBufferSubDataSet_AtStart(ib, offset, size, data) ==
    [ib EXCEPT !.m_Buffer = MemCpy(ib.m_Buffer, 0, data, 0, size)]

\* SetIndexBufferSubData: memcpy(&(ib->m_Buffer)[offset], data, size)
IndexBufferSubDataSet(ib, offset, size, data) ==
    [ib EXCEPT !.m_Buffer = MemCpy(ib.m_Buffer, offset, data, 0, size)]

SetIndexBufferSubData(h, offset, size, data) ==
    /\ Running
    /\ ibufs[h].alive
    /\ offset + size <= ibufs[h].m_Size
    /\ ibufs' = [ibufs EXCEPT ![h] = IndexBufferSubDataSet(ibufs[h], offset, size, data)]
    /\ lastOp' = Op("SetIndexBufferSubData", h)
    /\ UNCHANGED <<vbufs, fatal>>

\* MapIndexBuffer: ib->m_Copy = new char[m_Size]; memcpy(m_Copy, m_Buffer, m_Size)
IndexBufferMapped(ib, raw) ==
    [ib EXCEPT !.m_Copy = Some(MemCpy(raw, 0, ib.m_Buffer, 0, ib.m_Size))]

MapIndexBuffer(h) ==
    /\ Running
    /\ ibufs[h].alive
    /\ ibufs' = [ibufs EXCEPT ![h] = IndexBufferMapped(ibufs[h], Fresh(ibufs[h].m_Size))]
    /\ lastOp' = Op("MapIndexBuffer", h)
    /\ UNCHANGED <<vbufs, fatal>>

\* The client writes one byte through the pointer MapIndexBuffer returned
WriteIndexBufferView(h, i, b) ==
    /\ Running
    /\ ibufs[h].alive
    /\ ~IsNull(ibufs[h].m_Copy)
    /\ i \in 1..ibufs[h].m_Size
    /\ ibufs' = [ibufs EXCEPT ![h].m_Copy = Some([Deref(@) EXCEPT ![i] = b])]
    /\ lastOp' = Op("WriteIndexBufferView", h)
    /\ UNCHANGED <<vbufs, fatal>>

\* (mutant) the snapshot pointer is left as it is
IndexBufferUnmapped_KeepCopy(ib) ==
    [ib EXCEPT !.m_Buffer = MemCpy(ib.m_Buffer, 0, Deref(ib.m_Copy), 0, ib.m_Size)]

\* UnmapIndexBuffer: memcpy(m_Buffer, m_Copy, m_Size); delete [] m_Copy; m_Copy = 0
IndexBufferUnmapped(ib) ==
    [ib EXCEPT !.m_Buffer = MemCpy(ib.m_Buffer, 0, Deref(ib.m_Copy), 0, ib.m_Size),
               !.m_Copy = None]

UnmapIndexBuffer(h) ==
    /\ Running
    /\ ibufs[h].alive
    /\ ~IsNull(ibufs[h].m_Copy)
    /\ ibufs' = [ibufs EXCEPT ![h] = IndexBufferUnmapped(ibufs[h])]
    /\ UNCHANGED fatal
    /\ lastOp' = Op("UnmapIndexBuffer", h)
    /\ UNCHANGED <<vbufs>>

(***************************************************************************)
(* Element types.  A Type is named by its enumerator; TYPE_SIZE is indexed  *)
(* by type - TYPE_BYTE, in the order of the enumerators.                    *)
(***************************************************************************)
Types == {"TYPE_BYTE", "TYPE_UNSIGNED_BYTE", "TYPE_SHORT", "TYPE_UNSIGNED_SHORT",
          "TYPE_INT", "TYPE_UNSIGNED_INT", "TYPE_FLOAT"}

TYPE_SIZE ==
    [t \in Types |->
        CASE t \in {"TYPE_BYTE", "TYPE_UNSIGNED_BYTE"} -> 1
          [] t \in {"TYPE_SHORT", "TYPE_UNSIGNED_SHORT"} -> 2
          [] OTHER -> 4]

Pow2(n) == 2 ^ n
UInt16(x) == x % Pow2(16)

(***************************************************************************)
(* A uint32_t is kept as its four bytes, least significant first, so that  *)
(* every bit pattern has a value in the model.                             *)
(***************************************************************************)
AnyByte == 0..255
Word(b0, b1, b2, b3) == <<b0, b1, b2, b3>>

\* the word of a number below 2^31
ToWord(n) == Word(n % 256, (n \div 256) % 256, (n \div 65536) % 256, n \div 16777216)

\* the number of a word below 2^16, and -1 for every greater word
Small(w) == IF w[3] = 0 /\ w[4] = 0 THEN w[1] + 256 * w[2] ELSE -1

\* uint32_t * uint16_t, as the unsigned product modulo 2^32
MulWord(w, k) ==
    LET t0 == w[1] * k
        t1 == w[2] * k + t0 \div 256
        t2 == w[3] * k + t1 \div 256
        t3 == w[4] * k + t2 \div 256
    IN  Word(t0 % 256, t1 % 256, t2 % 256, t3 % 256)

(***************************************************************************)
(* Vertex declarations                                                     *)
(***************************************************************************)
Streams == 0..(MAX_VERTEX_STREAM_COUNT - 1)

\* a VertexElement of the memset(vd, 0, sizeof(*vd)) table; "0" is the zeroed m_Type
ZeroElement == [m_Stream |-> 0, m_Type |-> "0", m_Size |-> 0]

NoDeclaration == [alive |-> FALSE, m_Elements |-> [i \in Streams |-> ZeroElement]]

\* the loop of NewVertexDeclaration from element[i] on: the table, or "assert"
\* when the slot of an element holds a component count other than 0
RECURSIVE ElementsAssigned(_, _, _)
ElementsAssigned(table, element, i) ==
    IF i > Len(element) THEN [ok |-> TRUE, m_Elements |-> table]
    ELSE IF table[element[i].m_Stream].m_Size # 0
         THEN [ok |-> FALSE, m_Elements |-> table]
         ELSE ElementsAssigned([table EXCEPT ![element[i].m_Stream] = element[i]],
                               element, i + 1)

NewVertexDeclaration(h, element) ==
    /\ Running
    /\ ~decls[h].alive
    /\ LET r == ElementsAssigned(NoDeclaration.m_Elements, element, 1)
       IN  IF r.ok
           THEN /\ decls' = [decls EXCEPT ![h] = [alive |-> TRUE, m_Elements |-> r.m_Elements]]
                /\ UNCHANGED fatal
           ELSE /\ fatal' = "assert"
                /\ UNCHANGED decls
    /\ lastOp' = Op("NewVertexDeclaration", h)
    /\ UNCHANGED m_VertexStreams

DeleteVertexDeclaration(h) ==
    /\ Running
    /\ decls[h].alive
    /\ decls' = [decls EXCEPT ![h] = NoDeclaration]
    /\ lastOp' = Op("DeleteVertexDeclaration", h)
    /\ UNCHANGED <<m_VertexStreams, fatal>>

(***************************************************************************)
(* Stream binding.  A source pointer is the memory block it points into    *)
(* (the storage of a vertex buffer, or the client's own vertex array) and  *)
(* the byte offset in it.                                                  *)
(***************************************************************************)
NoStream == [m_Source |-> None, m_Buffer |-> None, m_Size |-> 0, m_Stride |-> 0]

Pointer(mem, off) == [mem |-> mem, off |-> off]

StreamSet_NoSourceCheck(vs, stream, size, type, stride, vertex_buffer) ==
    IF IsNull(vertex_buffer) \/ ~IsNull(vs[stream].m_Buffer)
    THEN [ok |-> FALSE, vs |-> vs]
    ELSE [ok |-> TRUE,
          vs |-> [vs EXCEPT ![stream] = [m_Source |-> vertex_buffer,
                                         m_Buffer |-> vs[stream].m_Buffer,
                                         m_Size |-> size * TYPE_SIZE[type],
                                         m_Stride |-> stride]]]

\* SetVertexStream on the stream table vs: the three asserts, then the binding
StreamSet(vs, stream, size, type, stride, vertex_buffer) ==
    IF IsNull(vertex_buffer) \/ ~IsNull(vs[stream].m_Source) \/ ~IsNull(vs[stream].m_Buffer)
    THEN [ok |-> FALSE, vs |-> vs]
    ELSE [ok |-> TRUE,
          vs |-> [vs EXCEPT ![stream] = [m_Source |-> vertex_buffer,
                                         m_Buffer |-> vs[stream].m_Buffer,
                                         m_Size |-> size * TYPE_SIZE[type],
                                         m_Stride |-> stride]]]

SetVertexStream(stream, size, type, stride, vertex_buffer) ==
    /\ Running
    /\ LET r == StreamSet(m_VertexStreams, stream, size, type, stride, vertex_buffer)
       IN  IF r.ok
           THEN /\ m_VertexStreams' = r.vs
                /\ UNCHANGED fatal
           ELSE /\ fatal' = "assert"
                /\ UNCHANGED m_VertexStreams
    /\ lastOp' = Op("SetVertexStream", "-")
    /\ UNCHANGED decls

\* (mutant) the compaction buffer stays in the slot
StreamDisabled_KeepBuffer(vs, stream) ==
    [vs EXCEPT ![stream] = [m_Source |-> None, m_Buffer |-> vs[stream].m_Buffer,
                            m_Size |-> 0, m_Stride |-> vs[stream].m_Stride]]

\* DisableVertexStream: the compaction buffer is freed, the slot is zeroed
StreamDisabled(vs, stream) == [vs EXCEPT ![stream] = NoStream]

DisableVertexStream(stream) ==
    /\ Running
    /\ m_VertexStreams' = StreamDisabled(m_VertexStreams, stream)
    /\ lastOp' = Op("DisableVertexStream", "-")
    /\ UNCHANGED <<decls, fatal>>

\* m_Size * TYPE_SIZE[m_Type - TYPE_BYTE] of a declaration slot; in a zeroed slot
\* the factor m_Size is 0
ElementBytes(ve) == IF ve.m_Size = 0 THEN 0 ELSE ve.m_Size * TYPE_SIZE[ve.m_Type]

\* (mutant) the stride is the element size of the last slot alone
StrideFrom_LastSlot(elements, i) == ElementBytes(elements[MAX_VERTEX_STREAM_COUNT - 1])

\* the first loop of EnableVertexDeclaration: uint16_t stride summed over the slots
RECURSIVE StrideFrom(_, _)
StrideFrom(elements, i) ==
    IF i >= MAX_VERTEX_STREAM_COUNT THEN 0
    ELSE UInt16(ElementBytes(elements[i]) + StrideFrom(elements, i + 1))

\* the second loop of EnableVertexDeclaration from slot i on, at byte `offset' of
\* the storage of vertex buffer vb (uint32_t offset: the sum of the element sizes
\* of MAX_VERTEX_STREAM_COUNT slots stays below 2^32)
RECURSIVE StreamsEnabled(_, _, _, _, _, _)
StreamsEnabled(vs, elements, vb, stride, i, offset) ==
    IF i >= MAX_VERTEX_STREAM_COUNT THEN [ok |-> TRUE, vs |-> vs]
    ELSE IF elements[i].m_Size > 0
         THEN LET r == StreamSet(vs, i, elements[i].m_Size, elements[i].m_Type, stride,
                                 Some(Pointer(vb, offset)))
              IN  IF r.ok
                  THEN StreamsEnabled(r.vs, elements, vb, stride, i + 1,
                                      offset + ElementBytes(elements[i]))
                  ELSE r
         ELSE StreamsEnabled(vs, elements, vb, stride, i + 1, offset)

EnableVertexDeclaration(vd, vb) ==
    /\ Running
    /\ decls[vd].alive
    /\ vbufs[vb].alive
    /\ LET stride == StrideFrom(decls[vd].m_Elements, 0)
           r == StreamsEnabled(m_VertexStreams, decls[vd].m_Elements, vb, stride, 0, 0)
       IN  IF r.ok
           THEN /\ m_VertexStreams' = r.vs
                /\ UNCHANGED fatal
           ELSE /\ fatal' = "assert"
                /\ m_VertexStreams' = r.vs
    /\ lastOp' = Op("EnableVertexDeclaration", vd)
    /\ UNCHANGED decls

RECURSIVE StreamsDisabled(_, _, _)
StreamsDisabled(vs, elements, i) ==
    IF i >= MAX_VERTEX_STREAM_COUNT THEN vs
    ELSE StreamsDisabled(IF elements[i].m_Size > 0 THEN StreamDisabled(vs, i) ELSE vs,
                         elements, i + 1)

DisableVertexDeclaration(vd) ==
    /\ Running
    /\ decls[vd].alive
    /\ m_VertexStreams' = StreamsDisabled(m_VertexStreams, decls[vd].m_Elements, 0)
    /\ lastOp' = Op("DisableVertexDeclaration", vd)
    /\ UNCHANGED <<decls, fatal>>

(***************************************************************************)
(* GetIndex.  The index buffer is the client's memory, a sequence of bytes; *)
(* an element of more than one byte is stored least significant byte first. *)
(* The result is the set of the values the build can produce: one value,    *)
(* but for a float that uint32_t cannot hold, whose conversion is undefined.*)
(***************************************************************************)
\* the n bytes of element `index' of an array of n-byte elements
ElementAt(index_buffer, index, n) == [k \in 1..n |-> index_buffer[index * n + k]]

\* conversion of an unsigned integer element to uint32_t
ZeroExtended(e) == [k \in 1..4 |-> IF k <= Len(e) THEN e[k] ELSE 0]

\* conversion of a two's complement integer element to uint32_t
SignExtended(e) ==
    [k \in 1..4 |-> IF k <= Len(e) THEN e[k] ELSE IF e[Len(e)] >= 128 THEN 255 ELSE 0]

\* what a build may leave in result when the float is out of the range of uint32_t
UndefinedIndex == {Word(0, 0, 0, 0), Word(0, 0, 0, 128), Word(255, 255, 255, 255)}

\* conversion of an IEEE 754 single to uint32_t: the value truncated towards zero
FloatConverted(e) ==
    LET sign == e[4] \div 128
        exponent == (e[4] % 128) * 2 + e[3] \div 128
        significand == 8388608 + (e[3] % 128) * 65536 + e[2] * 256 + e[1]
    IN  IF exponent < 127 THEN {Word(0, 0, 0, 0)}
        ELSE IF sign = 1 \/ exponent > 158 THEN UndefinedIndex
        ELSE IF exponent = 158
             THEN {Word(0, significand % 256, (significand \div 256) % 256,
                        significand \div 65536)}
        ELSE IF exponent >= 150 THEN {ToWord(significand * Pow2(exponent - 150))}
        ELSE {ToWord(significand \div Pow2(150 - exponent))}

GetIndex(type, index_buffer, index) ==
    CASE type = "TYPE_BYTE" ->
            {IF charSigned THEN SignExtended(ElementAt(index_buffer, index, 1))
                           ELSE ZeroExtended(ElementAt(index_buffer, index, 1))}
      [] type = "TYPE_UNSIGNED_BYTE" -> {ZeroExtended(ElementAt(index_buffer, index, 1))}
      [] type = "TYPE_SHORT" -> {SignExtended(ElementAt(index_buffer, index, 2))}
      [] type = "TYPE_UNSIGNED_SHORT" -> {ZeroExtended(ElementAt(index_buffer, index, 2))}
      [] type = "TYPE_INT" -> {SignExtended(ElementAt(index_buffer, index, 4))}
      [] type = "TYPE_UNSIGNED_INT" -> {ZeroExtended(ElementAt(index_buffer, index, 4))}
      [] type = "TYPE_FLOAT" -> FloatConverted(ElementAt(index_buffer, index, 4))

(***************************************************************************)
(* DrawElements                                                            *)
(***************************************************************************)
\* the memory block a source pointer points into
Block(mem) == IF mem = "client" THEN ClientVertices ELSE vbufs[mem].m_Buffer

\* index * vs.m_Stride, the byte offset of a vertex from the source pointer
SourceOffset_Packed(index, vs) == Small(MulWord(index, vs.m_Size))

SourceOffset(index, vs) == Small(MulWord(index, vs.m_Stride))

\* whether the m_Size bytes at byte `at' from the source of slot s are the
\* program's to read: the block is allocated and holds them
Readable(s, at) ==
    LET vs == m_VertexStreams[s]
        p == Deref(vs.m_Source)
    IN  /\ ~IsNull(vs.m_Source)
        /\ s \notin dangling
        /\ p.mem # "client" => vbufs[p.mem].alive
        /\ at >= 0
        /\ p.off + at + vs.m_Size <= Len(Block(p.mem))

\* the m_Size bytes memcpy reads at byte `at' from the source of slot s; a read
\* outside the block yields indeterminate bytes, here all equal to junk
SourceRead(s, at, junk) ==
    LET vs == m_VertexStreams[s]
        p == Deref(vs.m_Source)
    IN  [k \in 1..vs.m_Size |->
            IF Readable(s, at) THEN Block(p.mem)[p.off + at + k] ELSE junk]

\* the gather loop of DrawElements for slot s, from vertex i on
RECURSIVE Gather(_, _, _, _, _)
Gather(buffer, s, idx, i, junk) ==
    IF i >= Len(idx) THEN buffer
    ELSE LET vs == m_VertexStreams[s]
         IN  Gather(MemCpy(buffer, i * vs.m_Size,
                           SourceRead(s, SourceOffset(idx[i + 1], vs), junk), 0, vs.m_Size),
                    s, idx, i + 1, junk)

\* the sequences of the count indices GetIndex can decode from index_buffer
DecodedIndices(type, index_buffer, count) ==
    {idx \in [1..count -> UNION {GetIndex(type, index_buffer, i) : i \in 0..(count - 1)}] :
        \A i \in 1..count : idx[i] \in GetIndex(type, index_buffer, i - 1)}

ActiveStreams == {s \in Streams : m_VertexStreams[s].m_Size > 0}

\* every read of the gather stays inside the source blocks
GatherDefined(idx) ==
    \A s \in ActiveStreams : \A i \in 1..Len(idx) :
        Readable(s, SourceOffset(idx[i], m_VertexStreams[s]))

\* DrawElements: every active slot gets a new compaction buffer (the pointer to
\* an earlier one is overwritten) and the gather fills it.  A read outside a
\* source block is undefined: the program crashes or copies indeterminate bytes.
DrawElements(count, type, index_buffer) ==
    /\ Running
    /\ IF IsNull(index_buffer)
       THEN /\ fatal' = "assert"
            /\ UNCHANGED m_VertexStreams
       ELSE \E idx \in DecodedIndices(type, Deref(index_buffer), count) :
            \/ /\ \E junk \in (IF GatherDefined(idx) THEN {0} ELSE Byte) :
                     m_VertexStreams' =
                        [s \in Streams |->
                            IF s \in ActiveStreams
                            THEN [m_VertexStreams[s] EXCEPT !.m_Buffer =
                                    Some(Gather(Fresh(m_VertexStreams[s].m_Size * count),
                                                s, idx, 0, junk))]
                            ELSE m_VertexStreams[s]]
               /\ UNCHANGED fatal
            \/ /\ ~GatherDefined(idx)
               /\ fatal' = "segv"
               /\ UNCHANGED m_VertexStreams
    /\ lastOp' = Op("DrawElements", "-")
    /\ UNCHANGED decls

\* a stream slot dangles from the moment the vertex buffer its source points
\* into is deleted until the slot is unbound
TrackSources ==
    dangling' =
        {s \in Streams :
            /\ ~IsNull(m_VertexStreams'[s].m_Source)
            /\ \/ s \in dangling
               \/ /\ lastOp'.op = "DeleteVertexBuffer"
                  /\ ~vbufs'[lastOp'.h].alive
                  /\ Deref(m_VertexStreams'[s].m_Source).mem = lastOp'.h}

\* the calls that assign m_Buffer of a stream slot without delete []
OverwritingOps == {"DrawElements", "DeleteDevice", "NewDevice"}

\* a compaction buffer is orphaned when the m_Buffer that points to it is
\* assigned without delete []: by the new char[] of DrawElements in a slot with
\* m_Size > 0, by the 0x0 of DeleteDevice, by the memset of NewDevice.  An
\* orphan is the slot that held the buffer and the call that overwrote m_Buffer.
TrackOrphans ==
    orphans' =
        orphans \cup
        {[slot |-> s, by |-> lastOp'.op] :
            s \in {t \in Streams :
                      /\ lastOp'.op \in OverwritingOps
                      /\ fatal' = "none"
                      /\ ~IsNull(m_VertexStreams[t].m_Buffer)
                      /\ lastOp'.op = "DrawElements" => m_VertexStreams[t].m_Size > 0}}

(***************************************************************************)
(* Frame buffer and render targets.  A plane of 4 * width * height bytes   *)
(* is the sequence of its width * height 32-bit words; a word is its four  *)
(* bytes, or Raw while nothing has been written to it since new char[].    *)
(* A plane pointer is null (or dangling) where the model has None.         *)
(***************************************************************************)
Raw == <<>>

PlaneNames == {"m_ColorBuffer", "m_DepthBuffer", "m_AccumBuffer", "m_StencilBuffer"}

NoPlanes == [n \in PlaneNames |-> None]

\* four planes of new char[4 * width * height] each
NewPlanes(width, height) == [n \in PlaneNames |-> Some([i \in 1..(width * height) |-> Raw])]

NoTexture == [m_Data |-> None, m_Format |-> "0", m_Width |-> 0, m_Height |-> 0]

TEXTURE_FORMAT_SIZE ==
    [f \in {"TEXTURE_FORMAT_LUMINANCE", "TEXTURE_FORMAT_RGB", "TEXTURE_FORMAT_RGBA",
            "TEXTURE_FORMAT_RGB_DXT1", "TEXTURE_FORMAT_RGBA_DXT1",
            "TEXTURE_FORMAT_RGBA_DXT3", "TEXTURE_FORMAT_RGBA_DXT5"} |->
        CASE f = "TEXTURE_FORMAT_LUMINANCE" -> 1
          [] f \in {"TEXTURE_FORMAT_RGB", "TEXTURE_FORMAT_RGB_DXT1"} -> 3
          [] OTHER -> 4]

\* SetTextureData(texture, mip_map, width, height, format, 0x0, 0): width and
\* height arrive as uint16_t; m_Data is kept as the byte count of its allocation
TextureDataSet(width, height, texture_format) ==
    [m_Data |-> Some(TEXTURE_FORMAT_SIZE[texture_format] * UInt16(width) * UInt16(height)),
     m_Format |-> texture_format,
     m_Width |-> UInt16(width),
     m_Height |-> UInt16(height)]

NoRenderTarget == [alive |-> FALSE, m_Texture |-> NoTexture, m_RenderBuffer |-> NoPlanes]

\* a Vector4 is its four components; memset leaves the components 0.0f
ZeroVector == <<0, 0, 0, 0>>

Registers == 0..(MaxRegisters - 1)

\* a register bank after memset(registers, 0, sizeof(registers))
ZeroRegisters == [r \in Registers |-> ZeroVector]

NewDevice(width, height) ==
    /\ Running
    /\ m_VertexStreams' = [s \in Streams |-> NoStream]
    /\ m_DisplayWidth' = width
    /\ m_DisplayHeight' = height
    /\ m_Opened' = 1
    /\ m_FrameBuffer' = NewPlanes(width, height)
    /\ m_RenderBuffer' = Some("m_FrameBuffer")
    /\ m_VertexProgramRegisters' = ZeroRegisters
    /\ m_FragmentProgramRegisters' = ZeroRegisters
    /\ m_VertexProgram' = None
    /\ m_FragmentProgram' = None
    /\ lastOp' = Op("NewDevice", "-")
    /\ UNCHANGED <<rts, programs, fatal>>

\* DeleteDevice: the planes are freed; the stream slots lose their pointers
DeleteDevice ==
    /\ Running
    /\ m_Opened' = 0
    /\ m_FrameBuffer' = NoPlanes
    /\ m_VertexStreams' = [s \in Streams |->
                              [m_VertexStreams[s] EXCEPT !.m_Source = None, !.m_Buffer = None]]
    /\ lastOp' = Op("DeleteDevice", "-")
    /\ UNCHANGED programVars
    /\ UNCHANGED <<m_DisplayWidth, m_DisplayHeight, m_RenderBuffer, rts, fatal>>

\* (mutant) the planes of the earlier dimensions are kept
SetViewport_KeepPlanes(width, height) ==
    /\ Running
    /\ m_DisplayWidth' = width
    /\ m_DisplayHeight' = height
    /\ lastOp' = Op("SetViewport", "-")
    /\ UNCHANGED programVars
    /\ UNCHANGED <<m_Opened, m_FrameBuffer, m_RenderBuffer, rts, m_VertexStreams, fatal>>

\* SetViewport: the dimensions are stored, the four planes are freed and
\* allocated again with new char[4 * width * height]
SetViewport(width, height) ==
    /\ Running
    /\ m_DisplayWidth' = width
    /\ m_DisplayHeight' = height
    /\ m_FrameBuffer' = NewPlanes(width, height)
    /\ lastOp' = Op("SetViewport", "-")
    /\ UNCHANGED programVars
    /\ UNCHANGED <<m_Opened, m_RenderBuffer, rts, m_VertexStreams, fatal>>

NewRenderTarget(h, width, height, format) ==
    /\ Running
    /\ ~rts[h].alive
    /\ rts' = [rts EXCEPT ![h] = [alive |-> TRUE,
                                  m_Texture |-> TextureDataSet(width, height, format),
                                  m_RenderBuffer |-> NewPlanes(width, height)]]
    /\ lastOp' = Op("NewRenderTarget", h)
    /\ UNCHANGED programVars
    /\ UNCHANGED <<m_Opened, m_DisplayWidth, m_DisplayHeight, m_FrameBuffer, m_RenderBuffer,
                   m_VertexStreams, fatal>>

\* DeleteRenderTarget: texture, planes and object are freed; gdevice.m_RenderBuffer
\* is not looked at
DeleteRenderTarget(h) ==
    /\ Running
    /\ rts[h].alive
    /\ rts' = [rts EXCEPT ![h] = NoRenderTarget]
    /\ lastOp' = Op("DeleteRenderTarget", h)
    /\ UNCHANGED programVars
    /\ UNCHANGED <<m_Opened, m_DisplayWidth, m_DisplayHeight, m_FrameBuffer, m_RenderBuffer,
                   m_VertexStreams, fatal>>

EnableRenderTarget(h) ==
    /\ Running
    /\ rts[h].alive
    /\ m_RenderBuffer' = Some(h)
    /\ lastOp' = Op("EnableRenderTarget", h)
    /\ UNCHANGED programVars
    /\ UNCHANGED <<m_Opened, m_DisplayWidth, m_DisplayHeight, m_FrameBuffer, rts,
                   m_VertexStreams, fatal>>

\* (mutant) only the render target that is active is disabled
DisableRenderTarget_Matching(h) ==
    /\ Running
    /\ m_RenderBuffer' = IF m_RenderBuffer = Some(h) THEN Some("m_FrameBuffer")
                         ELSE m_RenderBuffer
    /\ lastOp' = Op("DisableRenderTarget", h)
    /\ UNCHANGED programVars
    /\ UNCHANGED <<m_Opened, m_DisplayWidth, m_DisplayHeight, m_FrameBuffer, rts,
                   m_VertexStreams, fatal>>

\* DisableRenderTarget: the handle is only compared with null
DisableRenderTarget(h) ==
    /\ Running
    /\ m_RenderBuffer' = Some("m_FrameBuffer")
    /\ lastOp' = Op("DisableRenderTarget", h)
    /\ UNCHANGED programVars
    /\ UNCHANGED <<m_Opened, m_DisplayWidth, m_DisplayHeight, m_FrameBuffer, rts,
                   m_VertexStreams, fatal>>

GetWindowWidth == m_DisplayWidth

GetWindowHeight == m_DisplayHeight

\* the bytes of an allocated plane
PlaneBytes(plane) == 4 * Len(Deref(plane))

\* GetRenderTargetTexture: the texture object of the render target
GetRenderTargetTexture(h) == rts[h].m_Texture

(***************************************************************************)
(* Program store and constant register banks.  A program handle is the     *)
(* pointer to the copy of the program bytes; a vertex and a fragment       *)
(* program handle are of the same type.  The calls get the context of      *)
(* GetContext(), which is never null.                                      *)
(***************************************************************************)
NoProgram == [alive |-> FALSE, data |-> <<>>]

\* NewVertexProgram: assert(program), then a copy of the program_size bytes
NewVertexProgram(h, program) ==
    /\ Running
    /\ ~programs[h].alive
    /\ IF IsNull(program)
       THEN /\ fatal' = "assert"
            /\ UNCHANGED programs
       ELSE /\ programs' = [programs EXCEPT ![h] =
                              [alive |-> TRUE,
                               data |-> MemCpy(Fresh(Len(Deref(program))), 0, Deref(program), 0,
                                               Len(Deref(program)))]]
            /\ UNCHANGED fatal
    /\ lastOp' = Op("NewVertexProgram", h)
    /\ UNCHANGED <<m_VertexProgram, m_FragmentProgram, m_VertexProgramRegisters,
                   m_FragmentProgramRegisters>>

NewFragmentProgram(h, program) ==
    /\ Running
    /\ ~programs[h].alive
    /\ IF IsNull(program)
       THEN /\ fatal' = "assert"
            /\ UNCHANGED programs
       ELSE /\ programs' = [programs EXCEPT ![h] =
                              [alive |-> TRUE,
                               data |-> MemCpy(Fresh(Len(Deref(program))), 0, Deref(program), 0,
                                               Len(Deref(program)))]]
            /\ UNCHANGED fatal
    /\ lastOp' = Op("NewFragmentProgram", h)
    /\ UNCHANGED <<m_VertexProgram, m_FragmentProgram, m_VertexProgramRegisters,
                   m_FragmentProgramRegisters>>

\* DeleteVertexProgram: assert(program), then the bytes are freed; the references
\* of the device are not looked at
DeleteVertexProgram(program) ==
    /\ Running
    /\ IF IsNull(program)
       THEN /\ fatal' = "assert"
            /\ UNCHANGED programs
       ELSE /\ programs[Deref(program)].alive
            /\ programs' = [programs EXCEPT ![Deref(program)] = NoProgram]
            /\ UNCHANGED fatal
    /\ lastOp' = Op("DeleteVertexProgram", IF IsNull(program) THEN "-" ELSE Deref(program))
    /\ UNCHANGED <<m_VertexProgram, m_FragmentProgram, m_VertexProgramRegisters,
                   m_FragmentProgramRegisters>>

DeleteFragmentProgram(program) ==
    /\ Running
    /\ IF IsNull(program)
       THEN /\ fatal' = "assert"
            /\ UNCHANGED programs
       ELSE /\ programs[Deref(program)].alive
            /\ programs' = [programs EXCEPT ![Deref(program)] = NoProgram]
            /\ UNCHANGED fatal
    /\ lastOp' = Op("DeleteFragmentProgram", IF IsNull(program) THEN "-" ELSE Deref(program))
    /\ UNCHANGED <<m_VertexProgram, m_FragmentProgram, m_VertexProgramRegisters,
                   m_FragmentProgramRegisters>>

\* SetVertexProgram: gdevice.m_VertexProgram = (void*)program, a null handle included
SetVertexProgram(program) ==
    /\ Running
    /\ m_VertexProgram' = program
    /\ lastOp' = Op("SetVertexProgram", IF IsNull(program) THEN "-" ELSE Deref(program))
    /\ UNCHANGED <<programs, m_FragmentProgram, m_VertexProgramRegisters,
                   m_FragmentProgramRegisters, fatal>>

SetFragmentProgram(program) ==
    /\ Running
    /\ m_FragmentProgram' = program
    /\ lastOp' = Op("SetFragmentProgram", IF IsNull(program) THEN "-" ELSE Deref(program))
    /\ UNCHANGED <<programs, m_VertexProgram, m_VertexProgramRegisters,
                   m_FragmentProgramRegisters, fatal>>

\* memcpy(&registers[base_register], data, sizeof(Vector4) * num_vectors)
RegistersSet(registers, data, base_register, num_vectors) ==
    [r \in Registers |->
        IF r >= base_register /\ r < base_register + num_vectors
        THEN data[r - base_register + 1] ELSE registers[r]]

\* (mutant) a bound program of either kind satisfies the check
SetFragmentConstant_AnyProgram(data, base_register) ==
    /\ Running
    /\ IF IsNull(m_FragmentProgram) /\ IsNull(m_VertexProgram)
       THEN /\ fatal' = "assert"
            /\ UNCHANGED m_FragmentProgramRegisters
       ELSE /\ m_FragmentProgramRegisters' =
                  RegistersSet(m_FragmentProgramRegisters, data, base_register, 1)
            /\ UNCHANGED fatal
    /\ lastOp' = Op("SetFragmentConstant", "-")
    /\ UNCHANGED <<programs, m_VertexProgram, m_FragmentProgram, m_VertexProgramRegisters>>

\* SetFragmentConstant: assert(gdevice.m_FragmentProgram != 0x0), then one vector
SetFragmentConstant(data, base_register) ==
    /\ Running
    /\ IF IsNull(m_FragmentProgram)
       THEN /\ fatal' = "assert"
            /\ UNCHANGED m_FragmentProgramRegisters
       ELSE /\ m_FragmentProgramRegisters' =
                  RegistersSet(m_FragmentProgramRegisters, data, base_register, 1)
            /\ UNCHANGED fatal
    /\ lastOp' = Op("SetFragmentConstant", "-")
    /\ UNCHANGED <<programs, m_VertexProgram, m_FragmentProgram, m_VertexProgramRegisters>>

\* SetVertexConstantBlock: assert(gdevice.m_VertexProgram != 0x0), then num_vectors vectors
SetVertexConstantBlock(data, base_register, num_vectors) ==
    /\ Running
    /\ IF IsNull(m_VertexProgram)
       THEN /\ fatal' = "assert"
            /\ UNCHANGED m_VertexProgramRegisters
       ELSE /\ m_VertexProgramRegisters' =
                  RegistersSet(m_VertexProgramRegisters, data, base_register, num_vectors)
            /\ UNCHANGED fatal
    /\ lastOp' = Op("SetVertexConstantBlock", "-")
    /\ UNCHANGED <<programs, m_VertexProgram, m_FragmentProgram, m_FragmentProgramRegisters>>

\* SetFragmentConstantBlock: assert(gdevice.m_FragmentProgram != 0x0), then num_vectors vectors
SetFragmentConstantBlock(data, base_register, num_vectors) ==
    /\ Running
    /\ IF IsNull(m_FragmentProgram)
       THEN /\ fatal' = "assert"
            /\ UNCHANGED m_FragmentProgramRegisters
       ELSE /\ m_FragmentProgramRegisters' =
                  RegistersSet(m_FragmentProgramRegisters, data, base_register, num_vectors)
            /\ UNCHANGED fatal
    /\ lastOp' = Op("SetFragmentConstantBlock", "-")
    /\ UNCHANGED <<programs, m_VertexProgram, m_FragmentProgram, m_VertexProgramRegisters>>

(***************************************************************************)
(* Clear.  The planes of the default target and of the render targets are  *)
(* looked at together as the plane memory; a plane in it is located by the *)
(* plane set ("m_FrameBuffer" or a render target handle) and the plane name.*)
(***************************************************************************)
PlaneMemory == [fb |-> m_FrameBuffer, rt |-> rts]

Location(set, name) == [set |-> set, name |-> name]

PlaneAt(mem, loc) ==
    IF loc.set = "m_FrameBuffer" THEN mem.fb[loc.name]
    ELSE mem.rt[loc.set].m_RenderBuffer[loc.name]

PlaneStored(mem, loc, plane) ==
    IF loc.set = "m_FrameBuffer" THEN [mem EXCEPT !.fb[loc.name] = plane]
    ELSE [mem EXCEPT !.rt[loc.set].m_RenderBuffer[loc.name] = plane]

\* the allocated planes
LivePlanes(mem) ==
    {loc \in [set : {"m_FrameBuffer"} \cup RTHandles, name : PlaneNames] :
        ~IsNull(PlaneAt(mem, loc))}

\* uint32_t colour = (red << 24) | (green << 16) | (blue << 8) | alpha
PackedColour(red, green, blue, alpha) == Word(alpha, blue, green, red)

\* for (i = 0; i < buffer_size; ++i) buffer[i] = value, as far as the plane reaches
Filled(plane, buffer_size, value) ==
    [i \in 1..Len(plane) |-> IF i <= buffer_size THEN value ELSE plane[i]]

\* one loop of Clear on plane `name' of the active plane set: the words of the
\* plane that the loop reaches; a freed plane takes none
PlaneCleared(mem, write, buffer_size) ==
    LET loc == Location(Deref(m_RenderBuffer), write.name)
    IN  IF staleTarget \/ IsNull(PlaneAt(mem, loc)) THEN mem
        ELSE PlaneStored(mem, loc, Some(Filled(Deref(PlaneAt(mem, loc)), buffer_size,
                                               write.value)))

RECURSIVE PlanesCleared(_, _, _)
PlanesCleared(mem, writes, buffer_size) ==
    IF writes = <<>> THEN mem
    ELSE PlanesCleared(PlaneCleared(mem, Head(writes), buffer_size), Tail(writes), buffer_size)

\* the number of words a loop of Clear writes outside the plane it is given
WordsOutside(mem, write, buffer_size) ==
    LET loc == Location(Deref(m_RenderBuffer), write.name)
    IN  IF staleTarget \/ IsNull(PlaneAt(mem, loc)) THEN buffer_size
        ELSE Max(0, buffer_size - Len(Deref(PlaneAt(mem, loc))))

\* the loops of Clear in their order, each with the plane and the word it writes
ClearWrites(flags, colour, depth, stencil) ==
    (IF "CLEAR_COLOUR_BUFFER" \in flags
        THEN <<[name |-> "m_ColorBuffer", value |-> colour]>> ELSE <<>>)
    \o (IF "CLEAR_DEPTH_BUFFER" \in flags
        THEN <<[name |-> "m_DepthBuffer", value |-> depth]>> ELSE <<>>)
    \o (IF "CLEAR_STENCIL_BUFFER" \in flags
        THEN <<[name |-> "m_StencilBuffer", value |-> stencil]>> ELSE <<>>)

\* Clear: each requested plane of the active plane set gets
\* m_DisplayWidth * m_DisplayHeight words.  Words written outside the plane (a
\* smaller plane, or a freed one) are undefined behaviour: the program crashes,
\* or goes on with nothing else changed, or goes on with the words in another
\* allocated plane, from its start; of the planes the heap may hold there, the
\* model takes the plane of the same name of another plane set.
Clear(flags, red, green, blue, alpha, depth, stencil) ==
    /\ Running
    /\ LET buffer_size == m_DisplayWidth * m_DisplayHeight
           writes == ClearWrites(flags, PackedColour(red, green, blue, alpha), depth, stencil)
           inside == PlanesCleared(PlaneMemory, writes, buffer_size)
           outside == {i \in 1..Len(writes) : WordsOutside(PlaneMemory, writes[i], buffer_size) > 0}
       IN  \/ /\ m_FrameBuffer' = inside.fb
              /\ rts' = inside.rt
              /\ UNCHANGED fatal
           \/ /\ outside # {}
              /\ fatal' = "segv"
              /\ UNCHANGED <<m_FrameBuffer, rts>>
           \/ \E i \in outside :
              \E victim \in {loc \in LivePlanes(inside) :
                                /\ loc.name = writes[i].name
                                /\ loc.set # Deref(m_RenderBuffer)} :
                 LET hit == PlaneStored(inside, victim,
                               Some(Filled(Deref(PlaneAt(inside, victim)),
                                           WordsOutside(PlaneMemory, writes[i], buffer_size),
                                           writes[i].value)))
                 IN  /\ m_FrameBuffer' = hit.fb
                     /\ rts' = hit.rt
                     /\ UNCHANGED fatal
    /\ lastOp' = Op("Clear", "-")
    /\ UNCHANGED programVars
    /\ UNCHANGED <<m_Opened, m_DisplayWidth, m_DisplayHeight, m_RenderBuffer, m_VertexStreams>>

\* gdevice.m_RenderBuffer is stale from the moment the render target it points
\* to is deleted until it is assigned again
TrackTarget ==
    staleTarget' =
        IF lastOp'.op \in {"NewDevice", "EnableRenderTarget", "DisableRenderTarget"} THEN FALSE
        ELSE \/ staleTarget
             \/ /\ lastOp'.op = "DeleteRenderTarget"
                /\ m_RenderBuffer = Some(lastOp'.h)

(***************************************************************************)
(* History of the map protocol, kept beside the program state.  `lost'      *)
(* holds the buffers one of whose maps has no matching unmap and no pointer *)
(* left: a later map of the same buffer overwrote m_Copy.  `touched' holds  *)
(* the mapped buffers whose storage a replace call changed since the map;   *)
(* a buffer stays in it after the unmap, until the next call on it.         *)
(***************************************************************************)
BufferOf(h) == IF h \in VBHandles THEN vbufs[h] ELSE ibufs[h]

MapOps == {"MapVertexBuffer", "MapIndexBuffer"}
UnmapOps == {"UnmapVertexBuffer", "UnmapIndexBuffer"}
NewOps == {"NewVertexBuffer", "NewIndexBuffer"}
ViewOps == {"WriteVertexBufferView", "WriteIndexBufferView"}
DeleteOps == {"DeleteVertexBuffer", "DeleteIndexBuffer"}
ReplaceOps == {"SetVertexBufferData", "SetVertexBufferSubData",
               "SetIndexBufferData", "SetIndexBufferSubData"}

TrackMaps ==
    LET op == lastOp'.op
        h == lastOp'.h
    IN  /\ lost' = IF op \in MapOps /\ ~IsNull(BufferOf(h).m_Copy) THEN lost \cup {h}
                   ELSE IF op \in NewOps THEN lost \ {h}
                   ELSE lost
        /\ touched' = IF op \in ReplaceOps /\ ~IsNull(BufferOf(h).m_Copy) THEN touched \cup {h}
                      ELSE IF op \in UnmapOps \cup ViewOps THEN touched
                      ELSE touched \ {h}

\* a map of buffer h has no matching unmap yet
Unmatched(h) == ~IsNull(BufferOf(h).m_Copy) \/ h \in lost

\* `mapped' holds the buffers on which a map call has returned and no unmap
\* call since; a buffer created or deleted is not in it
TrackSnapshots ==
    LET op == lastOp'.op
        h == lastOp'.h
    IN  mapped' = IF fatal' # "none" THEN mapped
                  ELSE IF op \in MapOps THEN mapped \cup {h}
                  ELSE IF op \in UnmapOps \cup NewOps \cup DeleteOps THEN mapped \ {h}
                  ELSE mapped

(***************************************************************************)
(* Specifications                                                          *)
(***************************************************************************)
NoArgs == [offset |-> 0, size |-> 0, data |-> <<>>]

\* the program before its first call
InitProgram ==
    /\ vbufs = [h \in VBHandles |-> NoBuffer]
    /\ ibufs = [h \in IBHandles |-> NoBuffer]
    /\ decls = [h \in VDHandles |-> NoDeclaration]
    /\ m_VertexStreams = [s \in Streams |-> NoStream]
    /\ charSigned \in BOOLEAN
    /\ dangling = {}
    /\ m_Opened = 0
    /\ m_DisplayWidth = 0
    /\ m_DisplayHeight = 0
    /\ m_FrameBuffer = NoPlanes
    /\ m_RenderBuffer = None
    /\ rts = [h \in TargetHandles |-> NoRenderTarget]
    /\ staleTarget = FALSE
    /\ fatal = "none"
    /\ lastOp = Op("Init", "-")
    /\ lost = {}
    /\ touched = {}
    /\ programs = [h \in ProgramHandles |-> NoProgram]
    /\ m_VertexProgram = None
    /\ m_FragmentProgram = None
    /\ m_VertexProgramRegisters = ZeroRegisters
    /\ m_FragmentProgramRegisters = ZeroRegisters
    /\ mapped = {}
    /\ orphans = {}

Init == InitProgram /\ args = NoArgs

\* sizes of the index buffers of the buffer store specifications
StoreIndexSizes == {0, 2}

OptData(n) == {None} \cup {Some(d) : d \in ByteSeqs(n)}

\* the calls of the buffer store but the sub-range replacements
BufferCalls ==
    \/ \E h \in StoreVB, size \in 0..MaxBufSize : \E data \in OptData(size) :
          NewVertexBuffer(h, size, data)
    \/ \E h \in StoreVB : DeleteVertexBuffer(h)
    \/ \E h \in StoreVB, size \in 0..MaxBufSize : \E data \in ByteSeqs(size) :
          SetVertexBufferData(h, size, data)
    \/ \E h \in StoreVB : MapVertexBuffer(h)
    \/ \E h \in StoreVB, i \in 1..MaxBufSize, b \in Byte : WriteVertexBufferView(h, i, b)
    \/ \E h \in StoreVB : UnmapVertexBuffer(h)
    \/ \E h \in StoreIB, size \in StoreIndexSizes : \E data \in ByteSeqs(size) :
          NewIndexBuffer(h, size, data)
    \/ \E h \in StoreIB : DeleteIndexBuffer(h)
    \/ \E h \in StoreIB, size \in 0..MaxBufSize : \E data \in ByteSeqs(size) :
          SetIndexBufferData(h, size, data)
    \/ \E h \in StoreIB : MapIndexBuffer(h)
    \/ \E h \in StoreIB, i \in 1..MaxBufSize, b \in Byte : WriteIndexBufferView(h, i, b)
    \/ \E h \in StoreIB : UnmapIndexBuffer(h)

\* the sub-range replacements; `keep' says whether the history keeps the arguments
SubDataCalls(keep) ==
    \E offset \in 0..MaxBufSize : \E size \in 0..(MaxBufSize - offset) :
    \E data \in ByteSeqs(size) :
        /\ \/ \E h \in StoreVB : SetVertexBufferSubData(h, offset, size, data)
           \/ \E h \in StoreIB : SetIndexBufferSubData(h, offset, size, data)
        /\ args' = IF keep THEN [offset |-> offset, size |-> size, data |-> data] ELSE NoArgs

\* the buffer store, one vertex and one index buffer, with the arguments of the
\* sub-range replacements
NextBuffers ==
    /\ \/ BufferCalls /\ args' = NoArgs
       \/ SubDataCalls(TRUE)
    /\ UNCHANGED <<histVars, streamVars, frameVars, programVars, orphans, charSigned>>

\* the buffer store never reads the signedness of char: one build stands for both
InitBuffers == Init /\ ~charSigned

SpecBuffers == InitBuffers /\ [][NextBuffers]_vars

\* the buffer store with the history of the map protocol
NextBufferMaps ==
    /\ \/ BufferCalls /\ args' = NoArgs
       \/ SubDataCalls(FALSE)
    /\ TrackMaps
    /\ TrackSnapshots
    /\ UNCHANGED <<streamVars, frameVars, programVars, orphans, charSigned>>

SpecBufferMaps == InitBuffers /\ [][NextBufferMaps]_vars

(***************************************************************************)
(* Vertex declarations alone: NewVertexDeclaration on every list of at     *)
(* most MAX_VERTEX_STREAM_COUNT elements, with component counts from 0.    *)
(***************************************************************************)
ElementLists(streams, types, counts) ==
    UNION {[1..n -> [m_Stream : streams, m_Type : types, m_Size : counts]] :
              n \in 0..MAX_VERTEX_STREAM_COUNT}

DeclarationTypes == {"TYPE_UNSIGNED_BYTE", "TYPE_SHORT", "TYPE_FLOAT"}

NextDeclarations ==
    /\ \/ \E h \in VDHandles :
          \E element \in ElementLists(Streams, DeclarationTypes, 0..2) :
              /\ NewVertexDeclaration(h, element)
              /\ args' = [element |-> element]
       \/ \E h \in VDHandles : DeleteVertexDeclaration(h) /\ args' = NoArgs
    /\ UNCHANGED <<bufVars, histVars, frameVars, programVars, orphans, dangling, charSigned>>

SpecDeclarations == InitBuffers /\ [][NextDeclarations]_vars

(***************************************************************************)
(* Index decoding alone: GetIndex on one element of an index array of      *)
(* every type, over the bit patterns made of the bytes of IndexBytes.      *)
(***************************************************************************)
IndexBytes == {0, 1, 127, 128, 255}

\* an index array of two elements: the decoded one and a zero element beside it
IndexInputs ==
    UNION {{[type |-> type, index |-> index, result |-> None,
             index_buffer |-> IF index = 0 THEN element \o [k \in 1..TYPE_SIZE[type] |-> 0]
                                           ELSE [k \in 1..TYPE_SIZE[type] |-> 0] \o element] :
                index \in 0..1, element \in [1..TYPE_SIZE[type] -> IndexBytes]} :
           type \in Types}

InitGetIndex == InitProgram /\ args \in IndexInputs

\* uint32_t index = GetIndex(type, index_buffer, i) on the drawn input
DecodeIndex ==
    /\ Running
    /\ IsNull(args.result)
    /\ \E result \in GetIndex(args.type, args.index_buffer, args.index) :
          args' = [args EXCEPT !.result = Some(result)]
    /\ lastOp' = Op("GetIndex", "-")
    /\ UNCHANGED <<bufVars, streamVars, frameVars, histVars, programVars, orphans,
                   charSigned, fatal>>

NextGetIndex == DecodeIndex

SpecGetIndex == InitGetIndex /\ [][NextGetIndex]_vars

(***************************************************************************)
(* Stream binding and DrawElements over one vertex buffer that holds the   *)
(* vertex array, one vertex declaration and the client's own vertex array. *)
(***************************************************************************)
\* the greatest k with 2^k <= v, for v >= 1
RECURSIVE Log2(_)
Log2(v) == IF v < 2 THEN 0 ELSE 1 + Log2(v \div 2)

\* the element of an index array of `type' that holds the index v < 256: an
\* integer least significant byte first, or the IEEE 754 single of value v
IndexElement(type, v) ==
    IF type = "TYPE_FLOAT"
    THEN IF v = 0 THEN Word(0, 0, 0, 0)
         ELSE LET exponent == 127 + Log2(v)
                  fraction == v * Pow2(23 - Log2(v)) - 8388608
              IN  Word(fraction % 256, (fraction \div 256) % 256,
                       (exponent % 2) * 128 + fraction \div 65536, exponent \div 2)
    ELSE [k \in 1..TYPE_SIZE[type] |-> IF k = 1 THEN v ELSE 0]

RECURSIVE IndexArray(_, _)
IndexArray(type, indices) ==
    IF indices = <<>> THEN <<>>
    ELSE IndexElement(type, Head(indices)) \o IndexArray(type, Tail(indices))

\* the index arrays of the draw calls: no index, the vertices in order, the
\* vertices rotated ([2, 0, 1] for three), each as unsigned shorts and as floats,
\* and an index past the last vertex
Rotation(n, r) == [i \in 1..n |-> (i - 1 + r) % n]

DrawInputs ==
    {[type |-> type, indices |-> indices] :
        type \in {"TYPE_UNSIGNED_SHORT", "TYPE_FLOAT"},
        indices \in {<<>>, Rotation(MaxCount, 0), Rotation(MaxCount, MaxCount - 1)}}
    \cup {[type |-> "TYPE_UNSIGNED_SHORT", indices |-> <<MaxCount>>]}

StreamVB == {"vb1"}

\* the declarations of the interleaved vertex format: shorts in the even
\* streams, unsigned bytes in the odd ones, one component each
StreamElements ==
    {[m_Stream |-> s, m_Size |-> 1,
      m_Type |-> IF s % 2 = 0 THEN "TYPE_SHORT" ELSE "TYPE_UNSIGNED_BYTE"] : s \in Streams}
StreamElementLists == UNION {[1..n -> StreamElements] : n \in 0..MAX_VERTEX_STREAM_COUNT}

\* the bindings a client makes itself: streams of the vertex array in its memory
ClientSources == {None, Some(Pointer("client", 0))}

\* the calls on streams but the draw calls
StreamCalls ==
    \/ \E h \in StreamVB : /\ NewVertexBuffer(h, Len(VertexArray), Some(VertexArray))
                           /\ UNCHANGED streamVarsOfProgram
    \/ \E h \in StreamVB : /\ DeleteVertexBuffer(h)
                           /\ UNCHANGED streamVarsOfProgram
    \/ \E h \in VDHandles : \E element \in StreamElementLists :
          /\ NewVertexDeclaration(h, element)
          /\ UNCHANGED bufVars
    \/ \E h \in VDHandles : /\ DeleteVertexDeclaration(h)
                            /\ UNCHANGED bufVars
    \/ \E vd \in VDHandles, vb \in StreamVB :
          /\ EnableVertexDeclaration(vd, vb)
          /\ UNCHANGED bufVars
    \/ \E vd \in VDHandles : /\ DisableVertexDeclaration(vd)
                             /\ UNCHANGED bufVars
    \/ \E stream \in Streams, size \in 0..1, vertex_buffer \in ClientSources :
          /\ SetVertexStream(stream, size, "TYPE_UNSIGNED_BYTE", VertexStride, vertex_buffer)
          /\ UNCHANGED bufVars
    \/ \E stream \in Streams : /\ DisableVertexStream(stream)
                               /\ UNCHANGED bufVars
\* the draw calls; the history keeps the type and the indices of the index array
DrawCalls ==
    \/ \E in \in DrawInputs :
          /\ DrawElements(Len(in.indices), in.type, Some(IndexArray(in.type, in.indices)))
          /\ args' = in
          /\ UNCHANGED bufVars

\* the client opens the device, then works on declarations, streams and draws
NextStreams ==
    /\ \/ /\ m_Opened = 0
          /\ NewDevice(1, 1)
          /\ args' = NoArgs
          /\ UNCHANGED <<bufVars, decls, staleTarget>>
       \/ /\ m_Opened = 1
          /\ \/ StreamCalls /\ args' = NoArgs
             \/ DrawCalls
          /\ UNCHANGED <<frameVars, programVars>>
    /\ TrackSources
    /\ UNCHANGED <<histVars, orphans, charSigned>>

\* no draw call of this specification has indices of type char
SpecStreams == InitBuffers /\ [][NextStreams]_vars

(***************************************************************************)
(* Frame buffer, render targets and Clear on an open device.  Displays and *)
(* render targets are squares of 1..MaxDim pixels a side.                  *)
(***************************************************************************)
Dims == 1..MaxDim

ClearFlags == {{}, {"CLEAR_COLOUR_BUFFER"},
               {"CLEAR_COLOUR_BUFFER", "CLEAR_DEPTH_BUFFER", "CLEAR_STENCIL_BUFFER"}}

\* red, green, blue, alpha of the clear calls
ClearColours == {<<10, 20, 30, 255>>, <<255, 0, 0, 128>>}

\* the depth 1.0f and the stencil value 1 as words
ClearDepth == Word(0, 0, 128, 63)
ClearStencil == Word(1, 0, 0, 0)

FrameCalls ==
    \/ \E n \in Dims : m_Opened = 0 /\ NewDevice(n, n)
    \/ m_Opened = 1 /\ DeleteDevice
    \/ \E n \in Dims : m_Opened = 1 /\ SetViewport(n, n)
    \/ \E h \in RTHandles, n \in Dims :
          m_Opened = 1 /\ NewRenderTarget(h, n, n, "TEXTURE_FORMAT_RGBA")
    \/ \E h \in RTHandles : m_Opened = 1 /\ DeleteRenderTarget(h)
    \/ \E h \in RTHandles : m_Opened = 1 /\ EnableRenderTarget(h)
    \/ \E h \in RTHandles : m_Opened = 1 /\ DisableRenderTarget(h)

ClearCalls ==
    \E flags \in ClearFlags, c \in ClearColours :
        /\ m_Opened = 1
        /\ Clear(flags, c[1], c[2], c[3], c[4], ClearDepth, ClearStencil)
        /\ args' = [flags |-> flags, red |-> c[1], green |-> c[2], blue |-> c[3],
                    alpha |-> c[4]]

NextFrame ==
    /\ \/ FrameCalls /\ args' = NoArgs
       \/ ClearCalls
    /\ TrackTarget
    /\ UNCHANGED <<bufVars, decls, dangling, histVars, orphans, charSigned>>

SpecFrame == InitBuffers /\ [][NextFrame]_vars

(***************************************************************************)
(* Programs and constant registers on an open device.  The register writes *)
(* stay inside the bank: a write past its last register is undefined.      *)
(***************************************************************************)
\* the program bytes a client passes, and the null pointer
ProgramBytes == {None, Some(<<1, 2>>)}

\* the handles a client binds: null, and the handles of both kinds of program
BindHandles == {None} \cup {Some(h) : h \in ProgramHandles}

\* the vector a client writes into a register
ConstantVector == <<1, 2, 3, 4>>

ProgramCalls ==
    \/ \E h \in VPHandles, program \in ProgramBytes : NewVertexProgram(h, program)
    \/ \E h \in FPHandles, program \in ProgramBytes : NewFragmentProgram(h, program)
    \/ \E program \in {None} \cup {Some(h) : h \in VPHandles} : DeleteVertexProgram(program)
    \/ \E program \in {None} \cup {Some(h) : h \in FPHandles} : DeleteFragmentProgram(program)
    \/ \E program \in BindHandles : SetVertexProgram(program)
    \/ \E program \in BindHandles : SetFragmentProgram(program)
    \/ \E base_register \in Registers : SetFragmentConstant(<<ConstantVector>>, base_register)
    \/ \E base_register \in Registers : \E num_vectors \in 0..(MaxRegisters - base_register) :
          SetVertexConstantBlock([i \in 1..num_vectors |-> ConstantVector],
                                 base_register, num_vectors)
    \/ \E base_register \in Registers : \E num_vectors \in 0..(MaxRegisters - base_register) :
          SetFragmentConstantBlock([i \in 1..num_vectors |-> ConstantVector],
                                   base_register, num_vectors)

\* the client opens and closes the device and works on programs and constants
NextPrograms ==
    /\ \/ m_Opened = 0 /\ NewDevice(1, 1)
       \/ m_Opened = 1 /\ DeleteDevice
       \/ /\ m_Opened = 1
          /\ ProgramCalls
          /\ UNCHANGED <<deviceVars, m_VertexStreams>>
    /\ args' = NoArgs
    /\ UNCHANGED <<bufVars, decls, dangling, staleTarget, histVars, orphans, charSigned>>

SpecPrograms == InitBuffers /\ [][NextPrograms]_vars

(***************************************************************************)
(* The life of the compaction buffers: the device is opened and closed,    *)
(* streams are bound and unbound through a declaration or one by one, and  *)
(* DrawElements allocates the compaction buffers; the history keeps the    *)
(* buffers that no pointer refers to any more.                             *)
(***************************************************************************)
\* the index arrays of the draw calls: no index, and the vertices in order
LifecycleDrawInputs ==
    {[type |-> "TYPE_UNSIGNED_SHORT", indices |-> indices] :
        indices \in {<<>>, Rotation(MaxCount, 0)}}

LifecycleCalls ==
    \/ \E h \in StreamVB : /\ NewVertexBuffer(h, Len(VertexArray), Some(VertexArray))
                           /\ UNCHANGED streamVarsOfProgram
    \/ \E h \in VDHandles : \E element \in StreamElementLists :
          /\ NewVertexDeclaration(h, element)
          /\ UNCHANGED bufVars
    \/ \E vd \in VDHandles, vb \in StreamVB :
          /\ EnableVertexDeclaration(vd, vb)
          /\ UNCHANGED bufVars
    \/ \E vd \in VDHandles : /\ DisableVertexDeclaration(vd)
                             /\ UNCHANGED bufVars
    \/ \E stream \in Streams :
          /\ SetVertexStream(stream, 1, "TYPE_UNSIGNED_BYTE", VertexStride,
                             Some(Pointer("client", 0)))
          /\ UNCHANGED bufVars
    \/ \E stream \in Streams : /\ DisableVertexStream(stream)
                               /\ UNCHANGED bufVars
    \/ \E in \in LifecycleDrawInputs :
          /\ DrawElements(Len(in.indices), in.type, Some(IndexArray(in.type, in.indices)))
          /\ UNCHANGED bufVars

NextLifecycle ==
    /\ \/ /\ m_Opened = 0
          /\ NewDevice(1, 1)
          /\ UNCHANGED <<bufVars, decls>>
       \/ /\ m_Opened = 1
          /\ DeleteDevice
          /\ UNCHANGED <<bufVars, decls>>
       \/ /\ m_Opened = 1
          /\ LifecycleCalls
          /\ UNCHANGED <<deviceVars, programVars>>
    /\ args' = NoArgs
    /\ TrackOrphans
    /\ UNCHANGED <<dangling, staleTarget, histVars, charSigned>>

SpecLifecycle == InitBuffers /\ [][NextLifecycle]_vars

(***************************************************************************)
(* Render targets and their textures: NewRenderTarget with every texture   *)
(* format, with sides of a few pixels and with sides that need more than   *)
(* 16 bits, and GetRenderTargetTexture.  The history keeps the arguments   *)
(* of NewRenderTarget while the render target lives.                       *)
(***************************************************************************)
TextureFormats == DOMAIN TEXTURE_FORMAT_SIZE

\* width and height of the render targets; a side above 65535 comes with a side
\* of 0, a plane of no pixel
TextureDims ==
    {d \in (0..MaxDim) \X (0..MaxDim) : d[1] * d[2] <= MaxDim}
    \cup {<<65536, 0>>, <<65536 + MaxDim, 0>>, <<0, 65536 + MaxDim>>}

TextureCalls ==
    \/ \E h \in RTHandles, d \in TextureDims, format \in TextureFormats :
          /\ NewRenderTarget(h, d[1], d[2], format)
          /\ args' = [width |-> d[1], height |-> d[2], format |-> format, texture |-> None]
    \/ \E h \in RTHandles :
          /\ DeleteRenderTarget(h)
          /\ args' = NoArgs
    \/ \E h \in RTHandles :
          /\ Running
          /\ rts[h].alive
          /\ args' = [args EXCEPT !.texture = Some(GetRenderTargetTexture(h))]
          /\ lastOp' = Op("GetRenderTargetTexture", h)
          /\ UNCHANGED <<deviceVars, programVars, m_VertexStreams, fatal>>

NextTextures ==
    /\ \/ m_Opened = 0 /\ NewDevice(1, 1) /\ args' = NoArgs
       \/ m_Opened = 1 /\ TextureCalls
    /\ TrackTarget
    /\ UNCHANGED <<bufVars, decls, dangling, histVars, orphans, charSigned>>

SpecTextures == InitBuffers /\ [][NextTextures]_vars

(***************************************************************************)
(* The viewport: the device is opened and resized with every width and     *)
(* height of 1..MaxDim, also while a render target exists or is enabled.   *)
(***************************************************************************)
ViewportCalls ==
    \/ \E width \in Dims, height \in Dims :
          /\ m_Opened = 0
          /\ NewDevice(width, height)
          /\ args' = NoArgs
    \/ /\ m_Opened = 1
       /\ DeleteDevice
       /\ args' = NoArgs
    \/ \E width \in Dims, height \in Dims :
          /\ m_Opened = 1
          /\ SetViewport(width, height)
          /\ args' = [width |-> width, height |-> height]
    \/ \E h \in RTHandles, n \in Dims :
          /\ m_Opened = 1
          /\ NewRenderTarget(h, n, n, "TEXTURE_FORMAT_RGBA")
          /\ args' = NoArgs
    \/ \E h \in RTHandles :
          /\ m_Opened = 1
          /\ DeleteRenderTarget(h)
          /\ args' = NoArgs
    \/ \E h \in RTHandles :
          /\ m_Opened = 1
          /\ EnableRenderTarget(h)
          /\ args' = NoArgs
    \/ \E h \in RTHandles :
          /\ m_Opened = 1
          /\ DisableRenderTarget(h)
          /\ args' = NoArgs

NextViewport ==
    /\ ViewportCalls
    /\ TrackTarget
    /\ UNCHANGED <<bufVars, decls, dangling, histVars, orphans, charSigned>>

SpecViewport == InitBuffers /\ [][NextViewport]_vars

(***************************************************************************)
(* The stream binder alone: declarations of every list of at most          *)
(* MAX_VERTEX_STREAM_COUNT elements of three types with 0 to 2 components  *)
(* are enabled on and disabled from the vertex buffer; the history keeps   *)
(* the arguments of EnableVertexDeclaration.                               *)
(***************************************************************************)
BinderCalls ==
    \/ \E h \in StreamVB : /\ NewVertexBuffer(h, Len(VertexArray), Some(VertexArray))
                           /\ args' = NoArgs
                           /\ UNCHANGED streamVarsOfProgram
    \/ \E h \in VDHandles :
       \E element \in ElementLists(Streams, DeclarationTypes, 0..2) :
          /\ NewVertexDeclaration(h, element)
          /\ args' = NoArgs
          /\ UNCHANGED bufVars
    \/ \E h \in VDHandles : /\ DeleteVertexDeclaration(h)
                            /\ args' = NoArgs
                            /\ UNCHANGED bufVars
    \/ \E vd \in VDHandles, vb \in StreamVB :
          /\ EnableVertexDeclaration(vd, vb)
          /\ args' = [vertex_declaration |-> vd, vertex_buffer |-> vb]
          /\ UNCHANGED bufVars
    \/ \E vd \in VDHandles : /\ DisableVertexDeclaration(vd)
                             /\ args' = NoArgs
                             /\ UNCHANGED bufVars

NextBinder ==
    /\ \/ /\ m_Opened = 0
          /\ NewDevice(1, 1)
          /\ args' = NoArgs
          /\ UNCHANGED <<bufVars, decls>>
       \/ /\ m_Opened = 1
          /\ BinderCalls
          /\ UNCHANGED <<deviceVars, programVars>>
    /\ UNCHANGED <<dangling, staleTarget, histVars, orphans, charSigned>>

SpecBinder == InitBuffers /\ [][NextBinder]_vars

(***************************************************************************)
(* Render target switching over two render targets of one pixel: they are  *)
(* created, deleted, enabled and disabled in any order.  The history keeps *)
(* the active plane set before the call and the call before it.            *)
(***************************************************************************)
TargetCalls ==
    \/ \E h \in TargetHandles : NewRenderTarget(h, 1, 1, "TEXTURE_FORMAT_RGBA")
    \/ \E h \in TargetHandles : DeleteRenderTarget(h)
    \/ \E h \in TargetHandles : EnableRenderTarget(h)
    \/ \E h \in TargetHandles : DisableRenderTarget(h)

NextTargets ==
    /\ \/ m_Opened = 0 /\ NewDevice(1, 1)
       \/ m_Opened = 1 /\ TargetCalls
    /\ args' = [active |-> m_RenderBuffer, after |-> lastOp.op]
    /\ TrackTarget
    /\ UNCHANGED <<bufVars, decls, dangling, histVars, orphans, charSigned>>

SpecTargets == InitBuffers /\ [][NextTargets]_vars

(***************************************************************************)
(* Several buffers side by side: two vertex buffers and an index buffer of *)
(* less than MaxBufSize bytes, every call of the buffer store on each.     *)
(***************************************************************************)
PairSizes == 0..(MaxBufSize - 1)

PairCalls ==
    \/ \E h \in VBHandles, size \in PairSizes : \E data \in OptData(size) :
          NewVertexBuffer(h, size, data)
    \/ \E h \in VBHandles : DeleteVertexBuffer(h)
    \/ \E h \in VBHandles, size \in PairSizes : \E data \in ByteSeqs(size) :
          SetVertexBufferData(h, size, data)
    \/ \E h \in VBHandles, offset \in PairSizes : \E size \in 0..(MaxBufSize - 1 - offset) :
       \E data \in ByteSeqs(size) : SetVertexBufferSubData(h, offset, size, data)
    \/ \E h \in VBHandles : MapVertexBuffer(h)
    \/ \E h \in VBHandles, i \in 1..(MaxBufSize - 1), b \in Byte : WriteVertexBufferView(h, i, b)
    \/ \E h \in VBHandles : UnmapVertexBuffer(h)
    \/ \E h \in IBHandles, size \in PairSizes : \E data \in ByteSeqs(size) :
          NewIndexBuffer(h, size, data)
    \/ \E h \in IBHandles : DeleteIndexBuffer(h)
    \/ \E h \in IBHandles, size \in PairSizes : \E data \in ByteSeqs(size) :
          SetIndexBufferData(h, size, data)
    \/ \E h \in IBHandles, offset \in PairSizes : \E size \in 0..(MaxBufSize - 1 - offset) :
       \E data \in ByteSeqs(size) : SetIndexBufferSubData(h, offset, size, data)
    \/ \E h \in IBHandles : MapIndexBuffer(h)
    \/ \E h \in IBHandles, i \in 1..(MaxBufSize - 1), b \in Byte : WriteIndexBufferView(h, i, b)
    \/ \E h \in IBHandles : UnmapIndexBuffer(h)

NextBufferPairs ==
    /\ PairCalls
    /\ args' = NoArgs
    /\ UNCHANGED <<histVars, streamVars, frameVars, programVars, orphans, charSigned>>

SpecBufferPairs == InitBuffers /\ [][NextBufferPairs]_vars

(***************************************************************************)
(* The whole device: every call of the specifications above, with all the  *)
(* histories.                                                              *)
(***************************************************************************)
Next ==
    /\ \/ /\ \/ BufferCalls /\ args' = NoArgs
             \/ SubDataCalls(TRUE)
          /\ UNCHANGED <<streamVarsOfProgram, deviceVars, programVars>>
       \/ /\ m_Opened = 1
          /\ \/ StreamCalls /\ args' = NoArgs
             \/ DrawCalls
          /\ UNCHANGED <<deviceVars, programVars>>
       \/ /\ \/ FrameCalls /\ args' = NoArgs
             \/ ClearCalls
          /\ UNCHANGED <<bufVars, decls>>
       \/ /\ m_Opened = 1
          /\ ProgramCalls
          /\ args' = NoArgs
          /\ UNCHANGED <<bufVars, streamVarsOfProgram, deviceVars>>
    /\ TrackMaps
    /\ TrackSnapshots
    /\ TrackSources
    /\ TrackOrphans
    /\ TrackTarget
    /\ UNCHANGED charSigned

Spec == Init /\ [][Next]_vars

(***************************************************************************)
(* Claims on the buffer store                                              *)
(***************************************************************************)

\* C1: map, write D into the returned view, unmap leaves the buffer's primary
\* contents equal to D: every unmap step of a mapped vertex or index buffer
\* makes m_Buffer equal to what the view held, whatever replace calls changed
\* m_Buffer since the map.
C1_MapUnmapRoundTrip ==
    [][/\ (lastOp'.op = "UnmapVertexBuffer" /\ ~IsNull(vbufs[lastOp'.h].m_Copy))
            => /\ vbufs'[lastOp'.h].m_Buffer = Deref(vbufs[lastOp'.h].m_Copy)
               /\ Len(vbufs'[lastOp'.h].m_Buffer) = vbufs[lastOp'.h].m_Size
       /\ (lastOp'.op = "UnmapIndexBuffer" /\ ~IsNull(ibufs[lastOp'.h].m_Copy))
            => /\ ibufs'[lastOp'.h].m_Buffer = Deref(ibufs[lastOp'.h].m_Copy)
               /\ Len(ibufs'[lastOp'.h].m_Buffer) = ibufs[lastOp'.h].m_Size]_vars

\* an unmap has written back a view that differs from what a replace call put
\* into the storage after the map
C1_Witness ==
    /\ fatal = "none"
    /\ lastOp.op = "UnmapVertexBuffer"
    /\ lastOp.h \in touched
    /\ vbufs[lastOp.h].m_Size = MaxBufSize
    /\ vbufs[lastOp.h].m_Buffer[1] = 255
    /\ vbufs[lastOp.h].m_Buffer[MaxBufSize] = 0

\* C2: a map on a buffer that already has an outstanding map fails as a fatal
\* precondition violation: no second map succeeds and returns a new snapshot,
\* so no buffer ever has a map that a later map has taken the snapshot pointer
\* from.
C2_SecondMapIsFatal ==
    \A h \in VBHandles \cup IBHandles :
        (lastOp.op \in MapOps /\ lastOp.h = h /\ h \in lost) => fatal # "none"

\* C3: deleting a buffer is fatal exactly when a map of it is outstanding (a
\* map with no matching unmap); with no outstanding map the buffer is deleted.
C3_DeleteGuardsOutstandingMap ==
    lastOp.op \in DeleteOps =>
        /\ fatal = "none" => (~BufferOf(lastOp.h).alive /\ lastOp.h \notin lost)
        /\ fatal # "none" => (fatal = "assert" /\ BufferOf(lastOp.h).alive
                                /\ Unmatched(lastOp.h))

\* bytes [o, o+len) of `after' are D, every other byte is as in `before'
OnlyRangeReplaced(before, after, o, len, D) ==
    /\ Len(after) = Len(before)
    /\ \A i \in 1..Len(before) :
          after[i] = IF o < i /\ i <= o + len THEN D[i - o] ELSE before[i]

\* C7: replace-sub-range(B, o, len, D) with o + len <= n sets bytes [o, o+len)
\* of B to D and leaves every other byte, B's size and B's snapshot unchanged.
C7_SubDataFrame ==
    [][/\ lastOp'.op = "SetVertexBufferSubData" =>
            LET h == lastOp'.h IN
            /\ OnlyRangeReplaced(vbufs[h].m_Buffer, vbufs'[h].m_Buffer,
                                 args'.offset, args'.size, args'.data)
            /\ vbufs'[h].m_Size = vbufs[h].m_Size
            /\ vbufs'[h].m_Copy = vbufs[h].m_Copy
       /\ lastOp'.op = "SetIndexBufferSubData" =>
            LET h == lastOp'.h IN
            /\ OnlyRangeReplaced(ibufs[h].m_Buffer, ibufs'[h].m_Buffer,
                                 args'.offset, args'.size, args'.data)
            /\ ibufs'[h].m_Size = ibufs[h].m_Size
            /\ ibufs'[h].m_Copy = ibufs[h].m_Copy]_vars

\* a sub-range that starts after the first byte has been replaced in a mapped
\* index buffer whose snapshot differs from the storage
C7_Witness ==
    /\ fatal = "none"
    /\ lastOp.op = "SetIndexBufferSubData"
    /\ args.offset = 1
    /\ args.size = 1
    /\ ibufs[lastOp.h].m_Size = 2
    /\ ibufs[lastOp.h].m_Buffer = <<0, 255>>
    /\ ibufs[lastOp.h].m_Copy = Some(<<255, 0>>)

(***************************************************************************)
(* Claims on stream binding and DrawElements                               *)
(***************************************************************************)

\* C4: after DrawElements(count, type, index_buffer), for every slot s with
\* size > 0 and every i < count, bytes [i*size, (i+1)*size) of the slot's
\* compaction buffer are bytes [idx_i*stride, idx_i*stride + size) from the
\* slot's source position, idx_i being the i-th index of the index array,
\* wherever the source block holds those bytes; the buffer has size*count bytes.
C4_GatherCorrect ==
    [][(lastOp'.op = "DrawElements" /\ fatal' = "none")
          => \A s \in Streams :
                m_VertexStreams[s].m_Size > 0 =>
                    LET vs == m_VertexStreams[s]
                        p == Deref(vs.m_Source)
                        buffer == m_VertexStreams'[s].m_Buffer
                    IN  /\ ~IsNull(buffer)
                        /\ Len(Deref(buffer)) = vs.m_Size * Len(args'.indices)
                        /\ \A i \in 0..(Len(args'.indices) - 1) :
                              LET at == p.off + args'.indices[i + 1] * vs.m_Stride
                              IN  (/\ s \notin dangling
                                   /\ p.mem # "client" => vbufs[p.mem].alive
                                   /\ at + vs.m_Size <= Len(Block(p.mem)))
                                  => \A k \in 1..vs.m_Size :
                                        Deref(buffer)[i * vs.m_Size + k] = Block(p.mem)[at + k]]_vars

\* a draw with the indices [2, 0, 1] has gathered the shorts of stream 0 and the
\* bytes of stream 1 from the interleaved vertex array in the vertex buffer
C4_Witness ==
    /\ fatal = "none"
    /\ lastOp.op = "DrawElements"
    /\ vbufs["vb1"].alive
    /\ vbufs["vb1"].m_Buffer = <<10, 11, 12, 20, 21, 22, 30, 31, 32>>
    /\ m_VertexStreams[0].m_Source = Some(Pointer("vb1", 0))
    /\ m_VertexStreams[1].m_Source = Some(Pointer("vb1", 2))
    /\ m_VertexStreams[0].m_Buffer = Some(<<30, 31, 10, 11, 20, 21>>)
    /\ m_VertexStreams[1].m_Buffer = Some(<<32, 12, 22>>)

\* a stream slot is bound: its source is set or it holds a compaction buffer
Bound(vs) == ~IsNull(vs.m_Source) \/ ~IsNull(vs.m_Buffer)

\* C5: SetVertexStream on a bound slot is fatal, and so is
\* EnableVertexDeclaration of a declaration with an element for a bound slot.
C5_RebindIsFatal ==
    [][/\ \A stream \in Streams, size \in 0..1, vertex_buffer \in ClientSources :
             (/\ SetVertexStream(stream, size, "TYPE_UNSIGNED_BYTE", VertexStride,
                                 vertex_buffer)
              /\ Bound(m_VertexStreams[stream]))
             => fatal' = "assert"
       /\ \A vd \in VDHandles, vb \in StreamVB :
             (/\ EnableVertexDeclaration(vd, vb)
              /\ \E s \in Streams : /\ decls[vd].m_Elements[s].m_Size > 0
                                    /\ Bound(m_VertexStreams[s]))
             => fatal' = "assert"]_vars

\* a second EnableVertexDeclaration has failed on a slot that an earlier one
\* bound and a draw call left a compaction buffer in
C5_Witness ==
    /\ fatal = "assert"
    /\ lastOp.op = "EnableVertexDeclaration"
    /\ \E s \in Streams : /\ ~IsNull(m_VertexStreams[s].m_Buffer)
                          /\ Deref(m_VertexStreams[s].m_Source).mem = "vb1"

(***************************************************************************)
(* Claims on vertex declarations and index decoding                        *)
(***************************************************************************)

\* C6: NewVertexDeclaration is fatal for every element list in which two
\* elements carry the same stream id, whatever their types and component
\* counts, a first element with component count 0 included.
C6_DuplicateStreamIsFatal ==
    (lastOp.op = "NewVertexDeclaration"
        /\ \E i, j \in 1..Len(args.element) :
              i < j /\ args.element[i].m_Stream = args.element[j].m_Stream)
    => fatal = "assert"

IntegerTypes == Types \ {"TYPE_FLOAT"}

\* C10: for every integer index type and every stored bit pattern the decoded
\* index is the zero-extended unsigned value of the element's bits.
C10_IndexZeroExtended ==
    (lastOp.op = "GetIndex" /\ args.type \in IntegerTypes)
    => \A k \in 1..4 :
          Deref(args.result)[k] = IF k <= TYPE_SIZE[args.type]
                           THEN args.index_buffer[args.index * TYPE_SIZE[args.type] + k]
                           ELSE 0

(***************************************************************************)
(* Claims on Clear and the render targets                                  *)
(***************************************************************************)
CleanColourClear == lastOp.op = "Clear" /\ "CLEAR_COLOUR_BUFFER" \in args.flags /\ fatal = "none"

\* the first n words of the allocated plane are `word'
WrittenTo(plane, n, word) ==
    /\ ~IsNull(plane)
    /\ \A i \in 1..Len(Deref(plane)) : i <= n => Deref(plane)[i] = word

\* C8: with a render target RT enabled, Clear with the colour flag writes the
\* colour into RT's colour plane and leaves the colour plane of the default
\* frame buffer unchanged; with the default frame buffer active (after
\* DisableRenderTarget) it writes into the default colour plane and leaves the
\* colour plane of every render target unchanged.
C8_ClearRouting ==
    [][(CleanColourClear' /\ ~staleTarget)
        => LET word == <<args'.alpha, args'.blue, args'.green, args'.red>>
               n == m_DisplayWidth * m_DisplayHeight
           IN  IF m_RenderBuffer = Some("m_FrameBuffer")
               THEN /\ WrittenTo(m_FrameBuffer'.m_ColorBuffer, n, word)
                    /\ \A h \in RTHandles :
                          rts'[h].m_RenderBuffer.m_ColorBuffer
                            = rts[h].m_RenderBuffer.m_ColorBuffer
               ELSE /\ WrittenTo(rts'[Deref(m_RenderBuffer)].m_RenderBuffer.m_ColorBuffer,
                                 n, word)
                    /\ m_FrameBuffer'.m_ColorBuffer = m_FrameBuffer.m_ColorBuffer]_vars

\* C9: Clear with the colour flag leaves every word of the active colour plane
\* equal to (red << 24) | (green << 16) | (blue << 8) | alpha, that is to the
\* bytes alpha, blue, green, red from the least significant one.
C9_ClearFillsColourPlane ==
    CleanColourClear
    => LET plane == PlaneAt(PlaneMemory, Location(Deref(m_RenderBuffer), "m_ColorBuffer"))
       IN  /\ ~IsNull(plane)
           /\ \A i \in 1..Len(Deref(plane)) :
                 Deref(plane)[i] = <<args.alpha, args.blue, args.green, args.red>>

(***************************************************************************)
(* Claims on the program store and the constant registers                  *)
(***************************************************************************)

\* C11: SetFragmentConstant and SetFragmentConstantBlock are fatal exactly when
\* gdevice.m_FragmentProgram is null, SetVertexConstantBlock exactly when
\* gdevice.m_VertexProgram is null, whatever the other reference holds; both
\* references are null after NewDevice, and a reference is null after a null
\* handle is bound to it.
C11_ConstantsNeedProgram ==
    [][/\ lastOp'.op \in {"SetFragmentConstant", "SetFragmentConstantBlock"}
            => (fatal' # "none" <=> IsNull(m_FragmentProgram))
       /\ lastOp'.op = "SetVertexConstantBlock"
            => (fatal' # "none" <=> IsNull(m_VertexProgram))
       /\ lastOp'.op = "NewDevice"
            => (IsNull(m_VertexProgram') /\ IsNull(m_FragmentProgram'))
       /\ (lastOp'.op = "SetVertexProgram" /\ lastOp'.h = "-") => IsNull(m_VertexProgram')
       /\ (lastOp'.op = "SetFragmentProgram" /\ lastOp'.h = "-")
            => IsNull(m_FragmentProgram')]_vars

\* SetFragmentConstant has failed with a live vertex program bound and the
\* fragment program reference null
C11_Witness ==
    /\ fatal = "assert"
    /\ lastOp.op = "SetFragmentConstant"
    /\ IsNull(m_FragmentProgram)
    /\ m_VertexProgram = Some("vp1")
    /\ programs["vp1"].alive

(***************************************************************************)
(* Claims on the life of the compaction buffers                            *)
(***************************************************************************)

\* C12: after DeleteDevice all four planes of the default target are freed, and
\* every compaction buffer that a stream slot still pointed to is freed: no
\* compaction buffer is left allocated with its pointer overwritten by
\* DeleteDevice.
C12_DeleteDeviceReleases ==
    lastOp.op = "DeleteDevice"
    => /\ \A n \in PlaneNames : IsNull(m_FrameBuffer[n])
       /\ \A o \in orphans : o.by # "DeleteDevice"

\* C20: no compaction buffer is leaked by drawing: every compaction buffer
\* DrawElements has allocated is pointed to by m_Buffer of its slot or has been
\* freed, so none is left allocated with its pointer overwritten by a later
\* DrawElements, whether slots are still bound or all are unbound again.
C20_DrawLeaksNothing ==
    \A o \in orphans : o.by # "DrawElements"

(***************************************************************************)
(* Claims on render targets and the viewport                               *)
(***************************************************************************)

\* C13: for all 32-bit widths w and heights h and every texture format f, the
\* texture that GetRenderTargetTexture returns for the render target of
\* NewRenderTarget(w, h, f) has recorded width w, recorded height h and a
\* storage of TEXTURE_FORMAT_SIZE[f] * w * h bytes.
C13_TextureMatchesTarget ==
    lastOp.op = "GetRenderTargetTexture"
    => LET texture == Deref(args.texture)
       IN  /\ texture.m_Width = args.width
           /\ texture.m_Height = args.height
           /\ texture.m_Data = Some(TEXTURE_FORMAT_SIZE[args.format] * args.width * args.height)

\* C14: after SetViewport(w2, h2) on an open device each of the four planes of
\* the default target has 4 * w2 * h2 bytes and GetWindowWidth and
\* GetWindowHeight return w2 and h2, whatever the dimensions were before.
C14_ViewportResizes ==
    lastOp.op = "SetViewport"
    => /\ \A n \in PlaneNames :
             /\ ~IsNull(m_FrameBuffer[n])
             /\ PlaneBytes(m_FrameBuffer[n]) = 4 * args.width * args.height
       /\ GetWindowWidth = args.width
       /\ GetWindowHeight = args.height

\* SetViewport has resized the display to MaxDim x 1 while a square render
\* target of MaxDim pixels a side is enabled
C14_Witness ==
    /\ lastOp.op = "SetViewport"
    /\ args.width = MaxDim
    /\ args.height = 1
    /\ m_RenderBuffer = Some("rt1")
    /\ rts["rt1"].alive
    /\ rts["rt1"].m_Texture.m_Width = MaxDim
    /\ Len(Deref(m_FrameBuffer["m_ColorBuffer"])) = MaxDim

(***************************************************************************)
(* Claims on the snapshots of the buffer store                             *)
(***************************************************************************)

\* C15: in every reachable state the snapshot pointer m_Copy of a buffer is
\* non-null exactly when a map has been called on the buffer with no unmap
\* since; it is null after the creation of the buffer and after every unmap.
C15_SnapshotInvariant ==
    /\ \A h \in VBHandles \cup IBHandles : ~IsNull(BufferOf(h).m_Copy) <=> h \in mapped
    /\ (lastOp.op \in NewOps \cup UnmapOps) => IsNull(BufferOf(lastOp.h).m_Copy)

\* the vertex buffer has been unmapped after two maps in a row and has no
\* snapshot, while the map of the index buffer is outstanding
C15_Witness ==
    /\ fatal = "none"
    /\ lastOp = Op("UnmapVertexBuffer", "vb1")
    /\ "vb1" \in lost
    /\ IsNull(vbufs["vb1"].m_Copy)
    /\ "ib1" \in mapped
    /\ ~IsNull(ibufs["ib1"].m_Copy)

(***************************************************************************)
(* Claims on the stream binder                                             *)
(***************************************************************************)
\* component count times the byte size of the type, 0 for an empty slot
SlotBytes(ve) == IF ve.m_Size > 0 THEN ve.m_Size * TYPE_SIZE[ve.m_Type] ELSE 0

\* the sum of the element byte sizes of the slots below slot s
RECURSIVE BytesBelow(_, _)
BytesBelow(elements, s) ==
    IF s = 0 THEN 0 ELSE SlotBytes(elements[s - 1]) + BytesBelow(elements, s - 1)

\* C16: EnableVertexDeclaration(decl, vb) with all slots unbound binds exactly
\* the non-empty slots of decl: each gets the stride that is the sum over all
\* slots of component count times byte size of the type, the source position
\* vb's storage plus the element byte sizes of the non-empty slots below it,
\* and the size component count times byte size; empty slots stay unbound.
C16_BinderLayout ==
    [][(/\ lastOp'.op = "EnableVertexDeclaration"
        /\ \A s \in Streams : ~Bound(m_VertexStreams[s]))
       => LET elements == decls[args'.vertex_declaration].m_Elements
          IN  /\ fatal' = "none"
              /\ \A s \in Streams :
                    IF elements[s].m_Size > 0
                    THEN /\ m_VertexStreams'[s].m_Source
                              = Some(Pointer(args'.vertex_buffer, BytesBelow(elements, s)))
                         /\ m_VertexStreams'[s].m_Size = SlotBytes(elements[s])
                         /\ m_VertexStreams'[s].m_Stride
                              = BytesBelow(elements, MAX_VERTEX_STREAM_COUNT)
                         /\ IsNull(m_VertexStreams'[s].m_Buffer)
                    ELSE /\ ~Bound(m_VertexStreams'[s])
                         /\ m_VertexStreams'[s] = m_VertexStreams[s]]_vars

\* a declaration of two floats in slot 0 and one short in the last slot is
\* enabled: the last slot reads at byte 8 of the vertex buffer with stride 10
C16_Witness ==
    /\ fatal = "none"
    /\ lastOp.op = "EnableVertexDeclaration"
    /\ decls["vd1"].m_Elements[0].m_Type = "TYPE_FLOAT"
    /\ decls["vd1"].m_Elements[0].m_Size = 2
    /\ m_VertexStreams[0] = [m_Source |-> Some(Pointer("vb1", 0)), m_Buffer |-> None,
                             m_Size |-> 8, m_Stride |-> 10]
    /\ m_VertexStreams[MAX_VERTEX_STREAM_COUNT - 1]
          = [m_Source |-> Some(Pointer("vb1", 8)), m_Buffer |-> None,
             m_Size |-> 2, m_Stride |-> 10]

\* the element tables of the declarations NewVertexDeclaration makes of the
\* element lists of the interleaved vertex format
StreamDeclarations ==
    {ElementsAssigned(NoDeclaration.m_Elements, element, 1).m_Elements :
        element \in {l \in StreamElementLists :
                        ElementsAssigned(NoDeclaration.m_Elements, l, 1).ok}}

C18_SwitchDepthOne ==
    [][/\ lastOp'.op = "DisableRenderTarget" => m_RenderBuffer' = Some("m_FrameBuffer")
       /\ (/\ lastOp'.op = "EnableRenderTarget"
           /\ m_RenderBuffer = Some(lastOp'.h)
           /\ ~staleTarget)
          => /\ m_RenderBuffer' = m_RenderBuffer
             /\ rts' = rts
             /\ m_FrameBuffer' = m_FrameBuffer]_vars

\* DisableRenderTarget with the handle of one render target has made the
\* default frame buffer active right after EnableRenderTarget of the other one
C18_Witness ==
    /\ fatal = "none"
    /\ lastOp = Op("DisableRenderTarget", "rt1")
    /\ args.after = "EnableRenderTarget"
    /\ args.active = Some("rt2")
    /\ rts["rt1"].alive
    /\ rts["rt2"].alive
    /\ m_RenderBuffer = Some("m_FrameBuffer")

(***************************************************************************)
(* Claims on several buffers                                               *)
(***************************************************************************)

\* C19: maps on distinct buffers do not interact: a map, a write through the
\* view, an unmap or a replace call on buffer A leaves the storage, the
\* snapshot and the outstanding-map status of every other buffer B unchanged,
\* and no map or unmap of B fails, nor a delete of B that has no snapshot of
\* its own, whatever maps are outstanding on other buffers.
C19_MapsIndependent ==
    [][/\ \A B \in VBHandles : lastOp'.h # B => vbufs'[B] = vbufs[B]
       /\ \A B \in IBHandles : lastOp'.h # B => ibufs'[B] = ibufs[B]
       /\ lastOp'.op \in MapOps \cup UnmapOps => fatal' = "none"
       /\ (lastOp'.op \in DeleteOps /\ IsNull(BufferOf(lastOp'.h).m_Copy))
            => fatal' = "none"]_vars

\* one vertex buffer has been deleted while the map of the other one is
\* outstanding, its view written and differing from its storage
C19_Witness ==
    /\ fatal = "none"
    /\ lastOp = Op("DeleteVertexBuffer", "vb2")
    /\ ~vbufs["vb2"].alive
    /\ vbufs["vb1"].alive
    /\ ~IsNull(vbufs["vb1"].m_Copy)
    /\ vbufs["vb1"].m_Copy # Some(vbufs["vb1"].m_Buffer)

(***************************************************************************)
(* Claims on the memory that Clear and DrawElements reach                  *)
(***************************************************************************)

\* C21: Clear stays inside the active planes: on every Clear, with the default
\* frame buffer or a live render target active, each plane it is asked to
\* clear is allocated and holds exactly the m_DisplayWidth * m_DisplayHeight
\* words that the loop of Clear writes, so no word is written past the plane
\* and none of the plane is left out; also with a render target whose
\* dimensions differ from the display's and after SetViewport while a render
\* target is active.
C21_ClearInsidePlanes ==
    [][(lastOp'.op = "Clear" /\ ~staleTarget)
       => LET buffer_size == m_DisplayWidth * m_DisplayHeight
              writes == ClearWrites(args'.flags,
                                    PackedColour(args'.red, args'.green, args'.blue,
                                                 args'.alpha),
                                    ClearDepth, ClearStencil)
          IN  \A i \in 1..Len(writes) :
                 LET plane == PlaneAt(PlaneMemory,
                                      Location(Deref(m_RenderBuffer), writes[i].name))
                 IN  /\ ~IsNull(plane)
                     /\ WordsOutside(PlaneMemory, writes[i], buffer_size) = 0
                     /\ Len(Deref(plane)) = buffer_size]_vars

\* C22: the active plane set is always live: while the device is open,
\* gdevice.m_RenderBuffer points to the default frame buffer or to the planes
\* of a render target that has not been deleted since it was enabled.
C22_ActivePlanesLive ==
    m_Opened = 1
    => /\ ~IsNull(m_RenderBuffer)
       /\ ~staleTarget
       /\ m_RenderBuffer # Some("m_FrameBuffer") => rts[Deref(m_RenderBuffer)].alive

\* C23: bound stream sources are always live: every stream slot whose source
\* points into the storage of a vertex buffer points into a vertex buffer that
\* has not been deleted since the slot was bound, so DrawElements never
\* gathers from freed storage.
C23_SourcesLive ==
    /\ dangling = {}
    /\ \A s \in Streams :
          (/\ ~IsNull(m_VertexStreams[s].m_Source)
           /\ Deref(m_VertexStreams[s].m_Source).mem # "client")
          => vbufs[Deref(m_VertexStreams[s].m_Source).mem].alive

====
